---- MODULE Spec2Model ----
(***************************************************************************)
(* Model of smartestimator's geometry reconstruction:                      *)
(*   src/src/vision/geometry_from_dims.py  (build_metrics and helpers)     *)
(*   src/app.py                            (the /estimate handler)         *)
(*                                                                         *)
(* Numbers.  The program computes in binary floating point.  The model     *)
(* computes in exact rationals <<n, d>> (d > 0, lowest terms).  A value    *)
(* whose second component is 0 is not a number: <<0,0>> is Python's None,  *)
(* <<1,0>> a JSON string that is not a number.                             *)
(* Inputs are chosen so that every square root taken is exact.             *)
(***************************************************************************)
EXTENDS Integers, Sequences, FiniteSets, TLC

\* ------------------------------------------------------------------------
\* Exact rational arithmetic (stands for Python float arithmetic)
\* ------------------------------------------------------------------------
None == <<0, 0>>
StrV == <<1, 0>>

IsNum(v) == v[2] # 0

Abs(n) == IF n < 0 THEN -n ELSE n

RECURSIVE GCD(_, _)
GCD(a, b) == IF b = 0 THEN a ELSE GCD(b, a % b)

Norm(n, d) ==
    LET g == GCD(Abs(n), Abs(d))
        s == IF d < 0 THEN -1 ELSE 1
    IN  <<s * (n \div g), s * (d \div g)>>

R(n) == <<n, 1>>
Q(n, d) == Norm(n, d)

RAdd(a, b) ==
    LET g == GCD(a[2], b[2])
        l == (a[2] \div g) * b[2]
    IN  Norm(a[1] * (l \div a[2]) + b[1] * (l \div b[2]), l)

RNeg(a) == <<-a[1], a[2]>>
RSub(a, b) == RAdd(a, RNeg(b))

RMul(a, b) ==
    LET g1 == GCD(Abs(a[1]), b[2])
        g2 == GCD(Abs(b[1]), a[2])
    IN  Norm((a[1] \div g1) * (b[1] \div g2), (a[2] \div g2) * (b[2] \div g1))

RInv(a) == Norm(a[2], a[1])
RDiv(a, b) == RMul(a, RInv(b))
RAbs(a) == <<Abs(a[1]), a[2]>>

RLt(a, b) == a[1] * b[2] < b[1] * a[2]
RLe(a, b) == a[1] * b[2] <= b[1] * a[2]
RGt(a, b) == RLt(b, a)
RPos(a) == a[1] > 0

\* Python truthiness of a JSON value: None and 0 are false, the rest true
Truthy(v) == IF IsNum(v) THEN v[1] # 0 ELSE v # None

RECURSIVE SqrtSearch(_, _, _)
SqrtSearch(n, lo, hi) ==
    IF lo >= hi THEN lo
    ELSE LET mid == (lo + hi + 1) \div 2
         IN  IF mid * mid <= n THEN SqrtSearch(n, mid, hi)
             ELSE SqrtSearch(n, lo, mid - 1)

ISqrt(n) == SqrtSearch(n, 0, IF n < 46340 THEN n ELSE 46340)

RSqrt(a) == Norm(ISqrt(a[1]), ISqrt(a[2]))

\* math.hypot(a, b)
Hypot(a, b) ==
    IF b[1] = 0 THEN RAbs(a)
    ELSE IF a[1] = 0 THEN RAbs(b)
    ELSE RSqrt(RAdd(RMul(a, a), RMul(b, b)))

\* round(x, 3): nearest multiple of 1/1000, ties to the even one
Round3(a) ==
    LET n == Abs(a[1])
        d == a[2]
        q == n \div d
        r == n % d
        k == (r * 1000) \div d
        rem == (r * 1000) % d
        up == IF 2 * rem > d THEN 1
              ELSE IF 2 * rem < d THEN 0
              ELSE IF k % 2 = 1 THEN 1 ELSE 0
        m == q * 1000 + k + up
    IN  Norm(IF a[1] < 0 THEN -m ELSE m, 1000)

\* ------------------------------------------------------------------------
\* Sequences
\* ------------------------------------------------------------------------
\* A function with domain 1..n, written out as a tuple
Tup(f) == f \o <<>>

RECURSIVE FlattenT(_)
FlattenT(ss) == IF ss = <<>> THEN <<>> ELSE Head(ss) \o FlattenT(Tail(ss))

Flatten(ss) == FlattenT(Tup(ss))

RECURSIVE RSumT(_)
RSumT(s) == IF s = <<>> THEN R(0) ELSE RAdd(Head(s), RSumT(Tail(s)))

RSum(s) == RSumT(Tup(s))

RECURSIVE Insert(_, _)
Insert(x, s) ==
    IF s = <<>> THEN <<x>>
    ELSE IF RLe(x, Head(s)) THEN <<x>> \o s
    ELSE <<Head(s)>> \o Insert(x, Tail(s))

RECURSIVE SortR(_)
SortR(s) == IF s = <<>> THEN <<>> ELSE Insert(Head(s), SortR(Tail(s)))

\* statistics.median of a non-empty list
Median(s) ==
    LET t == SortR(s)
        n == Len(t)
    IN  IF n % 2 = 1 THEN t[(n + 1) \div 2]
        ELSE RDiv(RAdd(t[n \div 2], t[n \div 2 + 1]), R(2))

RECURSIVE MinR(_)
MinR(s) == IF Len(s) = 1 THEN s[1]
           ELSE LET m == MinR(Tail(s)) IN IF RLe(s[1], m) THEN s[1] ELSE m

RECURSIVE MaxR(_)
MaxR(s) == IF Len(s) = 1 THEN s[1]
           ELSE LET m == MaxR(Tail(s)) IN IF RLe(m, s[1]) THEN s[1] ELSE m

\* ------------------------------------------------------------------------
\* Text.  A string is a tuple of one-character strings; the curly glyphs
\* U+2019, U+201D, U+2033, U+201C are the characters "rsquo", "rdquo",
\* "dprime", "ldquo".
\* ------------------------------------------------------------------------
Digits == {"0", "1", "2", "3", "4", "5", "6", "7", "8", "9"}
Spaces == {" "}
Letters == {"a", "b", "c", "e", "f", "h", "i", "m", "n", "s", "t", "x",
            "A", "B", "C", "E", "F", "H", "I", "M", "N", "S", "T", "X"}

DigitVal(c) == CASE c = "0" -> 0 [] c = "1" -> 1 [] c = "2" -> 2 [] c = "3" -> 3
                 [] c = "4" -> 4 [] c = "5" -> 5 [] c = "6" -> 6 [] c = "7" -> 7
                 [] c = "8" -> 8 [] c = "9" -> 9

\* re.IGNORECASE on the letters the pattern uses
Lower(c) == CASE c = "F" -> "f" [] c = "T" -> "t" [] c = "E" -> "e" [] c = "I" -> "i"
              [] c = "N" -> "n" [] c = "C" -> "c" [] c = "H" -> "h" [] c = "S" -> "s"
              [] c = "M" -> "m" [] OTHER -> c

IsWordChar(c) == c \in Digits \cup Letters \cup {"_"}

\* str.strip()
RECURSIVE LStrip(_)
LStrip(t) == IF t # <<>> /\ Head(t) \in Spaces THEN LStrip(Tail(t)) ELSE t

RECURSIVE RStrip(_)
RStrip(t) == IF t # <<>> /\ t[Len(t)] \in Spaces
             THEN RStrip(SubSeq(t, 1, Len(t) - 1)) ELSE t

Strip(t) == RStrip(LStrip(t))

\* str.replace for single characters
Replace(t, old, new) == Tup([i \in 1..Len(t) |-> IF t[i] = old THEN new ELSE t[i]])

\* needle in haystack
Contains(t, w) ==
    \E i \in 1..(Len(t) - Len(w) + 1) : SubSeq(t, i, i + Len(w) - 1) = w

\* float("12") / float("12.5") of the digits t[i..j-1]
RECURSIVE DecInt(_, _, _)
DecInt(t, i, j) == IF i >= j THEN 0 ELSE DecInt(t, i, j - 1) * 10 + DigitVal(t[j - 1])

RECURSIVE Pow10(_)
Pow10(k) == IF k = 0 THEN 1 ELSE 10 * Pow10(k - 1)

DotAt(t, i, j) == IF \E k \in i..(j - 1) : t[k] = "."
                  THEN CHOOSE k \in i..(j - 1) : t[k] = "." ELSE j

FloatOf(t, i, j) ==
    LET dot == DotAt(t, i, j)
    IN  IF dot = j THEN R(DecInt(t, i, j))
        ELSE RAdd(R(DecInt(t, i, dot)), Q(DecInt(t, dot + 1, j), Pow10(j - dot - 1)))

\* ------------------------------------------------------------------------
\* DIM_FT_RX.  The pattern is data: a sequence of elements
\*   ws      \s*                 num     \d+(?:\.\d+)?  captured as a group
\*   lit     one of some words   optlit  the same, optional
\*   opt     an optional group running up to element skip - 1
\*   wb      \b                  end     $
\*   int     \d+ captured as a group     any     nothing more is required
\* (re.match without $ accepts whatever follows)
\* and Match is the backtracking matcher of the re module: every element
\* tries its ways to match in the engine's order (greedy first) and the first
\* way for which the rest of the pattern matches is taken.
\* ------------------------------------------------------------------------
RECURSIVE RunEnd(_, _, _)
RunEnd(t, i, S) == IF i <= Len(t) /\ t[i] \in S THEN RunEnd(t, i + 1, S) ELSE i

\* greedy X*: longest first, down to the empty match
Down(hi, lo) == Tup([k \in 1..(hi - lo + 1) |-> hi - k + 1])

\* \s*
WsEnds(t, i) == Down(RunEnd(t, i, Spaces), i)

\* the fraction of a number whose integer part ends before e
FracEnds(t, e) ==
    IF e <= Len(t) /\ t[e] = "." THEN Down(RunEnd(t, e + 1, Digits), e + 2) ELSE <<>>

\* \d+(?:\.\d+)?
NumEnds(t, i) ==
    Flatten([a \in 1..(RunEnd(t, i, Digits) - i) |->
                FracEnds(t, RunEnd(t, i, Digits) - a + 1)
                \o <<RunEnd(t, i, Digits) - a + 1>>])

\* \d+
IntEnds(t, i) == IF RunEnd(t, i, Digits) = i THEN <<>> ELSE Down(RunEnd(t, i, Digits), i + 1)

\* a literal word, ignoring case
LitEnds(t, i, w) ==
    IF i + Len(w) - 1 <= Len(t)
       /\ \A k \in 1..Len(w) : Lower(t[i + k - 1]) = w[k]
    THEN <<i + Len(w)>> ELSE <<>>

\* (?:w1|w2|...)
AltEnds(t, i, words) == Flatten([k \in 1..Len(words) |-> LitEnds(t, i, words[k])])

\* \b
WordBoundary(t, i) ==
    (i > 1 /\ IsWordChar(t[i - 1])) # (i <= Len(t) /\ IsWordChar(t[i]))

NoGroup == <<0, 0>>
NoCaps == [ft |-> NoGroup, in |-> NoGroup, in_only |-> NoGroup, mm |-> NoGroup,
           g1 |-> NoGroup, g2 |-> NoGroup]
Fail == [ok |-> FALSE, caps |-> NoCaps]

El(op, group, words, skip) == [op |-> op, group |-> group, words |-> words, skip |-> skip]

FtUnits == << <<"'">>, <<"f", "t">>, <<"f", "e", "e", "t">> >>
InUnits == << <<"\"">>, <<"i", "n">>, <<"i", "n", "c", "h", "e", "s">>,
              <<"i", "n", "c", "h">> >>

\* ^\s* ft \s* (?:'|ft|feet)? (?:\s* in \s* (?:"|in|inch(?:es)?)?)? \s*$
FtPattern ==
    << El("ws", "", <<>>, 0), El("num", "ft", <<>>, 0), El("ws", "", <<>>, 0),
       El("optlit", "", FtUnits, 0), El("opt", "", <<>>, 10),
       El("ws", "", <<>>, 0), El("num", "in", <<>>, 0), El("ws", "", <<>>, 0),
       El("optlit", "", InUnits, 0),
       El("ws", "", <<>>, 0), El("end", "", <<>>, 0) >>

\* ^\s* in_only \s* (?:"|in|inch(?:es)?) \b \s*$
InOnlyPattern ==
    << El("ws", "", <<>>, 0), El("num", "in_only", <<>>, 0), El("ws", "", <<>>, 0),
       El("lit", "", InUnits, 0), El("wb", "", <<>>, 0),
       El("ws", "", <<>>, 0), El("end", "", <<>>, 0) >>

\* ^\s* mm \s* mm \b \s*$
MmPattern ==
    << El("ws", "", <<>>, 0), El("num", "mm", <<>>, 0), El("ws", "", <<>>, 0),
       El("lit", "", << <<"m", "m">> >>, 0), El("wb", "", <<>>, 0),
       El("ws", "", <<>>, 0), El("end", "", <<>>, 0) >>

RECURSIVE Match(_, _, _, _, _)
RECURSIVE TryEnds(_, _, _, _, _, _, _, _)

\* pat[k..] matches t[i..], given the groups captured so far
Match(t, pat, k, i, caps) ==
    CASE pat[k].op = "end" ->
            IF i = Len(t) + 1 THEN [ok |-> TRUE, caps |-> caps] ELSE Fail
      [] pat[k].op = "any" -> [ok |-> TRUE, caps |-> caps]
      [] pat[k].op = "int" ->
            TryEnds(t, pat, k + 1, IntEnds(t, i), 1, caps, pat[k].group, i)
      [] pat[k].op = "ws" -> TryEnds(t, pat, k + 1, WsEnds(t, i), 1, caps, "", i)
      [] pat[k].op = "num" ->
            TryEnds(t, pat, k + 1, NumEnds(t, i), 1, caps, pat[k].group, i)
      [] pat[k].op = "lit" ->
            TryEnds(t, pat, k + 1, AltEnds(t, i, pat[k].words), 1, caps, "", i)
      [] pat[k].op = "optlit" ->
            TryEnds(t, pat, k + 1, AltEnds(t, i, pat[k].words) \o <<i>>, 1, caps, "", i)
      [] pat[k].op = "opt" ->
            LET r == Match(t, pat, k + 1, i, caps)
            IN  IF r.ok THEN r ELSE Match(t, pat, pat[k].skip, i, caps)
      [] pat[k].op = "wb" ->
            IF WordBoundary(t, i) THEN Match(t, pat, k + 1, i, caps) ELSE Fail

\* the first of ends[j..] after which pat[k..] matches
TryEnds(t, pat, k, ends, j, caps, group, start) ==
    IF j > Len(ends) THEN Fail
    ELSE LET r == Match(t, pat, k, ends[j],
                        IF group = "" THEN caps
                        ELSE [caps EXCEPT ![group] = <<start, ends[j]>>])
         IN  IF r.ok THEN r ELSE TryEnds(t, pat, k, ends, j + 1, caps, group, start)

\* 1 mm in feet, 0.0032808399
FT_PER_MM == Q(32808399, 100000 * 100000)

\* DIM_FT_RX.match(t): the alternatives in order
DimMatch(t) ==
    LET ft == Match(t, FtPattern, 1, 1, NoCaps)
        in_only == Match(t, InOnlyPattern, 1, 1, NoCaps)
    IN  IF ft.ok THEN ft
        ELSE IF in_only.ok THEN in_only
        ELSE Match(t, MmPattern, 1, 1, NoCaps)

NormalizeQuotes(t) ==
    Replace(Replace(Replace(Replace(t, "rsquo", "'"), "rdquo", "\""),
                    "dprime", "\""), "ldquo", "\"")

Group(t, g) == FloatOf(t, g[1], g[2])

to_feet_of(t, m) ==
    IF ~m.ok THEN None
    ELSE IF m.caps.mm # NoGroup THEN RMul(Group(t, m.caps.mm), FT_PER_MM)
    ELSE IF m.caps.in_only # NoGroup THEN RDiv(Group(t, m.caps.in_only), R(12))
    ELSE RAdd(IF m.caps.ft # NoGroup THEN Group(t, m.caps.ft) ELSE R(0),
              RDiv(IF m.caps.in # NoGroup THEN Group(t, m.caps.in) ELSE R(0), R(12)))

to_feet(text) ==
    to_feet_of(NormalizeQuotes(Strip(text)), DimMatch(NormalizeQuotes(Strip(text))))

\* ------------------------------------------------------------------------
\* Geometry helpers.  A point is <<x, y>>, a polygon a sequence of points.
\* ------------------------------------------------------------------------
Pt(x, y) == <<R(x), R(y)>>
NoPt == <<None, None>>
NoBox == <<>>

dist(p1, p2) == Hypot(RSub(p1[1], p2[1]), RSub(p1[2], p2[2]))

Succ(i, n) == (i % n) + 1

\* sum over i of x_i * y_(i+1) - x_(i+1) * y_i
RECURSIVE CrossSum(_, _)
CrossSum(poly, i) ==
    IF i > Len(poly) THEN R(0)
    ELSE LET a == poly[i]
             b == poly[Succ(i, Len(poly))]
         IN  RAdd(RSub(RMul(a[1], b[2]), RMul(b[1], a[2])), CrossSum(poly, i + 1))

RECURSIVE EdgeSum(_, _)
EdgeSum(poly, i) ==
    IF i > Len(poly) THEN R(0)
    ELSE RAdd(dist(poly[i], poly[Succ(i, Len(poly))]), EdgeSum(poly, i + 1))

\* faulty variant: the signed area, without abs()
shoelace_signed(poly) ==
    IF Len(poly) < 3 THEN [area |-> R(0), perim |-> R(0)]
    ELSE [area |-> RDiv(CrossSum(poly, 1), R(2)), perim |-> EdgeSum(poly, 1)]

shoelace_area_and_perim(poly) ==
    IF Len(poly) < 3 THEN [area |-> R(0), perim |-> R(0)]
    ELSE [area |-> RDiv(RAbs(CrossSum(poly, 1)), R(2)), perim |-> EdgeSum(poly, 1)]

\* faulty variant: x and y change places
scale_poly_swapped(poly_px, s) ==
    Tup([i \in 1..Len(poly_px) |-> <<RMul(poly_px[i][2], s), RMul(poly_px[i][1], s)>>])

scale_poly(poly_px, s) ==
    Tup([i \in 1..Len(poly_px) |-> <<RMul(poly_px[i][1], s), RMul(poly_px[i][2], s)>>])

\* length of an open polyline
RECURSIVE PathLen(_, _)
PathLen(poly, i) ==
    IF i > Len(poly) THEN R(0)
    ELSE RAdd(dist(poly[i - 1], poly[i]), PathLen(poly, i + 1))

\* ------------------------------------------------------------------------
\* Scale from OCR dimension tokens.  A token is
\*   [p1, p2 : point or NoPt, feet : number or None, text : string]
\* (an absent "text" key and an empty text behave alike).
\* ------------------------------------------------------------------------
HasEnds(d) == d.p1 # NoPt /\ d.p2 # NoPt

Tok(p1, p2, feet, text) == [p1 |-> p1, p2 |-> p2, feet |-> feet, text |-> text]

\* The dimension tokens an OCR JSON may hold: measured lines with a numeric
\* "feet" or a text to parse, a 3 px stub, a token without endpoints (what
\* ocr_dims.py writes), a non-positive length, and a 2'-8" door label whose
\* curly quote _to_feet does not read.
TokenList ==
    << Tok(Pt(0, 0), Pt(500, 0), R(10), <<"1", "0", "'">>),
       Tok(Pt(0, 0), Pt(0, 250), R(5), <<>>),
       Tok(Pt(0, 0), Pt(300, 400), None, <<"1", "2", "'", " ", "6", "\"">>),
       Tok(Pt(0, 0), Pt(3, 0), None, <<"8", "'">>),
       Tok(NoPt, NoPt, R(8), <<"8", "'">>),
       Tok(Pt(0, 0), Pt(100, 0), R(-4), <<"4", "'">>),
       Tok(Pt(0, 0), Pt(26667, 0), None, <<"2", "rsquo", "-", "8", "\"">>) >>

\* The texts handed to the Dimension Parser: feet, a feet mark, a separator, inches and
\* an inch mark, each present or not, the marks straight or curly; and a word,
\* compound sizes, inches spelled out, zero feet, a fraction, a trailing
\* letter.  (No metric length: the ten decimals of FT_PER_MM need more than
\* the 32 bits of the model's integers.)
FtParts == {<<>>, <<"8">>, <<"1", "2">>}
FtMarkGlyphs == {<<>>, <<"'">>, <<"rsquo">>}
Separators == {<<>>, <<" ">>, <<"-">>}
InParts == {<<>>, <<"6">>}
InMarkGlyphs == {<<>>, <<"\"">>, <<"rdquo">>}
OtherTexts ==
    { <<"a", "b", "c">>, <<"1", "2", "X", "1", "6">>, <<"1", "2", "x", "1", "6", "'">>,
      <<"6", "i", "n">>, <<"0", "'">>, <<"8", ".", "5", "'">>, <<"8", "'", " ", "6", "a">> }
Texts ==
    { f \o fm \o sep \o i \o im :
        f \in FtParts, fm \in FtMarkGlyphs, sep \in Separators, i \in InParts,
        im \in InMarkGlyphs } \cup OtherTexts

\* _to_feet over the texts of TokenList and Texts, evaluated once
ToFeetCache ==
    [t \in {TokenList[i].text : i \in DOMAIN TokenList} \cup Texts |-> to_feet(t)]

\* faulty variant: a text that cannot be read counts as one foot
FeetValUnreadAsFoot(d) ==
    IF IsNum(d.feet) THEN d.feet
    ELSE IF ToFeetCache[d.text] = None THEN R(1) ELSE ToFeetCache[d.text]

FeetVal(d) == IF IsNum(d.feet) THEN d.feet ELSE ToFeetCache[d.text]

\* faulty variant: the noise filter lets a 3 px line through
IsCandidateOffByOne(d) ==
    /\ HasEnds(d)
    /\ RGt(dist(d.p1, d.p2), R(2))
    /\ FeetVal(d) # None
    /\ RPos(FeetVal(d))

IsCandidate(d) ==
    /\ HasEnds(d)
    /\ RGt(dist(d.p1, d.p2), R(3))
    /\ FeetVal(d) # None
    /\ RPos(FeetVal(d))

RECURSIVE Candidates(_)
Candidates(dims) ==
    IF dims = <<>> THEN <<>>
    ELSE (IF IsCandidate(Head(dims))
          THEN <<RDiv(FeetVal(Head(dims)), dist(Head(dims).p1, Head(dims).p2))>>
          ELSE <<>>) \o Candidates(Tail(dims))

estimate_scale_from_dims(dims) ==
    IF Candidates(dims) = <<>> THEN None ELSE Median(Candidates(dims))

\* ------------------------------------------------------------------------
\* ocr_dims.py: parse_dimension.  Its result is None, a float or a list of
\* two floats: [kind, a, b].
\* ------------------------------------------------------------------------
FtMarks == << <<"'">>, <<"rsquo">> >>

\* (\d+)\s*['\u2019]\s*(\d+)
FeetInchesPattern ==
    << El("int", "g1", <<>>, 0), El("ws", "", <<>>, 0), El("lit", "", FtMarks, 0),
       El("ws", "", <<>>, 0), El("int", "g2", <<>>, 0), El("any", "", <<>>, 0) >>

\* (\d+)\s*['\u2019]$
FeetOnlyPattern ==
    << El("int", "g1", <<>>, 0), El("ws", "", <<>>, 0), El("lit", "", FtMarks, 0),
       El("end", "", <<>>, 0) >>

\* (\d+)\s*[xX]\s*(\d+)
CrossPattern ==
    << El("int", "g1", <<>>, 0), El("ws", "", <<>>, 0), El("lit", "", << <<"x">>, <<"X">> >>, 0),
       El("ws", "", <<>>, 0), El("int", "g2", <<>>, 0), El("any", "", <<>>, 0) >>

NoVal == [kind |-> "none", a |-> None, b |-> None]

parse_dimension(text) ==
    LET t == Strip(text)
        m1 == Match(t, FeetInchesPattern, 1, 1, NoCaps)
        m2 == Match(t, FeetOnlyPattern, 1, 1, NoCaps)
        m3 == Match(t, CrossPattern, 1, 1, NoCaps)
    IN  IF m1.ok
        THEN [kind |-> "float", b |-> None,
              a |-> RAdd(Group(t, m1.caps.g1), RDiv(Group(t, m1.caps.g2), R(12)))]
        ELSE IF m2.ok THEN [kind |-> "float", a |-> Group(t, m2.caps.g1), b |-> None]
        ELSE IF m3.ok
        THEN [kind |-> "list", a |-> Group(t, m3.caps.g1), b |-> Group(t, m3.caps.g2)]
        ELSE NoVal

\* ------------------------------------------------------------------------
\* Bounding boxes
\* ------------------------------------------------------------------------
AllPoints(shapes) == Flatten([i \in 1..Len(shapes) |-> shapes[i].poly_px])

BoxOf(pts) ==
    IF pts = <<>> THEN NoBox
    ELSE LET xs == Tup([i \in 1..Len(pts) |-> pts[i][1]])
             ys == Tup([i \in 1..Len(pts) |-> pts[i][2]])
         IN  << <<MinR(xs), MinR(ys)>>, <<MaxR(xs), MinR(ys)>>,
                <<MaxR(xs), MaxR(ys)>>, <<MinR(xs), MaxR(ys)>> >>

bbox_from_walls_px(walls) == BoxOf(AllPoints(walls))

bbox_from_rooms_px(rooms) == BoxOf(AllPoints(rooms))

\* faulty variant: the rooms are left out of the box
bbox_union_px_walls_only(walls, rooms) == bbox_from_walls_px(walls)

bbox_union_px(walls, rooms) ==
    LET b_w == bbox_from_walls_px(walls)
        b_r == bbox_from_rooms_px(rooms)
    IN  IF b_w = NoBox /\ b_r = NoBox THEN NoBox
        ELSE IF b_r = NoBox THEN b_w
        ELSE IF b_w = NoBox THEN b_r
        ELSE BoxOf(b_w \o b_r)

synthesize_small_box_ft == <<Pt(0, 0), Pt(10, 0), Pt(10, 10), Pt(0, 10)>>

\* ------------------------------------------------------------------------
\* manual_scale.json.  The file is [kind, kw, kh]: kind "missing" (no file),
\* "invalid" (not JSON), "object" (a JSON object with the two values, an
\* absent key being None) or "other" (valid JSON that is not an object).
\* ------------------------------------------------------------------------
read_manual_scale_json(file) ==
    IF file.kind \in {"object", "other"}
    THEN [isdict |-> file.kind = "object", kw |-> file.kw, kh |-> file.kh]
    ELSE [isdict |-> TRUE, kw |-> None, kh |-> None]

OrNone(v) == IF Truthy(v) THEN v ELSE None

\* Image.open(preproc_path) succeeds
Readable(img) == img.path /\ img.ok

\* ------------------------------------------------------------------------
\* build_metrics, stage by stage.  Each stage is a function of the locals
\* it reads and yields the locals it assigns.
\* ------------------------------------------------------------------------

\* 1) OCR-based scale
OcrStage(dims) ==
    LET v == estimate_scale_from_dims(dims)
    IN  [ft_per_px |-> v, scale_source |-> IF v # None THEN "ocr" ELSE "default"]

\* faulty variant: the manual record is consulted only when the OCR tier found nothing
ManualStageOnlyWithoutOcr(ft, src, file, walls, rooms, img) ==
    LET ms == read_manual_scale_json(file)
        bbox == bbox_union_px(walls, rooms)
        use == /\ ft = None /\ IsNum(ms.kw) /\ Truthy(ms.kw) /\ bbox # NoBox
               /\ RPos(RSub(bbox[3][1], bbox[1][1]))
    IN  [raised |-> ~ms.isdict,
         ft_per_px |-> IF use THEN RDiv(ms.kw, RSub(bbox[3][1], bbox[1][1])) ELSE ft,
         scale_source |-> IF use THEN "manual" ELSE src,
         manual_used |-> use,
         kw |-> OrNone(ms.kw), kh |-> OrNone(ms.kh)]

\* 1.5) Manual scale override.  raised: the exception leaves build_metrics
\* (ms.get on a non-object, float() of a non-number outside the try block).
ManualStage(ft, src, file, walls, rooms, img) ==
    LET ms == read_manual_scale_json(file)
        kw == OrNone(ms.kw)
        kh == OrNone(ms.kh)
        keep == [raised |-> FALSE, ft_per_px |-> ft, scale_source |-> src,
                 manual_used |-> FALSE, kw |-> kw, kh |-> kh]
        fail == [keep EXCEPT !.raised = TRUE]
        set(v) == [keep EXCEPT !.ft_per_px = v, !.scale_source = "manual",
                               !.manual_used = TRUE]
        bbox == bbox_union_px(walls, rooms)
    IN  IF ~ms.isdict THEN [fail EXCEPT !.kw = None, !.kh = None]
        ELSE IF kw = None /\ kh = None THEN keep
        ELSE IF bbox # NoBox THEN
            LET px_w == RSub(bbox[3][1], bbox[1][1])
                px_h == RSub(bbox[3][2], bbox[1][2])
            IN  IF kw # None /\ RPos(px_w)
                THEN (IF IsNum(kw) THEN set(RDiv(kw, px_w)) ELSE fail)
                ELSE IF kh # None /\ RPos(px_h)
                THEN (IF IsNum(kh) THEN set(RDiv(kh, px_h)) ELSE fail)
                ELSE keep
        ELSE IF img.path THEN
            IF ~img.ok THEN keep
            ELSE IF kw # None /\ img.w > 0
            THEN (IF IsNum(kw) THEN set(RDiv(kw, R(img.w))) ELSE keep)
            ELSE IF kh # None /\ img.h > 0
            THEN (IF IsNum(kh) THEN set(RDiv(kh, R(img.h))) ELSE keep)
            ELSE keep
        ELSE keep

\* 2) Weak heuristic: tokens whose text names the 2'-8" door width
DoorFt == Q(26667, 10000)

DoorWords == { <<"2", "'", "-", "8">>, <<"2", "'", " ", "-", " ", "8">>,
               <<"2", "rsquo", "-", "8">> }

IsGuess(d) ==
    /\ \E w \in DoorWords : Contains(Replace(d.text, "rsquo", "'"), w)
    /\ HasEnds(d)
    /\ RGt(dist(d.p1, d.p2), R(3))

RECURSIVE Guesses(_)
Guesses(dims) ==
    IF dims = <<>> THEN <<>>
    ELSE (IF IsGuess(Head(dims))
          THEN <<RDiv(DoorFt, dist(Head(dims).p1, Head(dims).p2))>>
          ELSE <<>>) \o Guesses(Tail(dims))

HeuristicTag == "ocr"

\* faulty variant: the heuristic runs whatever the earlier tiers found
HeuristicAppliesAlways(ft, dims) == Guesses(dims) # <<>>

HeuristicApplies(ft, dims) == ft = None /\ Guesses(dims) # <<>>

\* faulty variant: the heuristic sets the scale and forgets the tag
HeuristicStageUntagged(ft, src, dims) ==
    IF HeuristicApplies(ft, dims)
    THEN [ft_per_px |-> Median(Guesses(dims)), scale_source |-> src]
    ELSE [ft_per_px |-> ft, scale_source |-> src]

HeuristicStage(ft, src, dims) ==
    IF HeuristicApplies(ft, dims)
    THEN [ft_per_px |-> Median(Guesses(dims)), scale_source |-> HeuristicTag]
    ELSE [ft_per_px |-> ft, scale_source |-> src]

DefaultScale == Q(2, 100)

\* faulty variant: the default is set whatever the earlier tiers found
DefaultStageAlways(ft, src) == [ft_per_px |-> DefaultScale, scale_source |-> "default"]

DefaultStage(ft, src) ==
    IF ft = None THEN [ft_per_px |-> DefaultScale, scale_source |-> "default"]
    ELSE [ft_per_px |-> ft, scale_source |-> src]

\* 3) Rooms -> feet
MinArea == Q(1, 100)

Room(name, poly_ft) ==
    LET ap == shoelace_area_and_perim(poly_ft)
    IN  [name |-> name, polygon_ft |-> poly_ft,
         area_ft2 |-> Round3(ap.area), perimeter_ft |-> Round3(ap.perim)]

\* faulty variant: a polygon is kept however small
RoomSurvivesAnyArea(r, s) == Len(r.poly_px) >= 3

RoomSurvives(r, s) ==
    /\ Len(r.poly_px) >= 3
    /\ RGt(shoelace_area_and_perim(scale_poly(r.poly_px, s)).area, MinArea)

RECURSIVE RoomsStage(_, _)
RoomsStage(rooms_px, s) ==
    IF rooms_px = <<>> THEN <<>>
    ELSE LET r == Head(rooms_px)
         IN  (IF RoomSurvives(r, s)
              THEN <<Room(IF r.name = "" THEN "Room" ELSE r.name,
                          scale_poly(r.poly_px, s))>>
              ELSE <<>>) \o RoomsStage(Tail(rooms_px), s)

\* faulty variant: the manual rectangle is built even when pixel shapes exist
ManualRectAppliesWithShapes(manual_used, bbox_px, img) == manual_used /\ img.path

\* 4) Guarantee some area: GrossArea from the manual width and height
ManualRectApplies(manual_used, bbox_px, img) ==
    manual_used /\ bbox_px = NoBox /\ img.path

GuaranteeStage(rooms_ft, manual_used, kw, kh, walls, rooms_px, img, s) ==
    LET bbox_px == bbox_union_px(walls, rooms_px)
    IN  IF rooms_ft # <<>> THEN rooms_ft
        ELSE IF ~ManualRectApplies(manual_used, bbox_px, img) THEN rooms_ft
        ELSE IF ~img.ok THEN rooms_ft
        ELSE IF (kw # None /\ ~IsNum(kw)) \/ (kh # None /\ ~IsNum(kh)) THEN rooms_ft
        ELSE
            LET kh1 == IF kw # None /\ kh = None /\ img.w > 0
                       THEN RMul(kw, Q(img.h, img.w)) ELSE kh
                kw1 == IF kh1 # None /\ kw = None /\ img.h > 0
                       THEN RMul(kh1, Q(img.w, img.h)) ELSE kw
                poly_ft == IF kw1 # None /\ kh1 # None
                           THEN <<Pt(0, 0), <<kw1, R(0)>>, <<kw1, kh1>>, <<R(0), kh1>> >>
                           ELSE scale_poly(<<Pt(0, 0), Pt(img.w, 0),
                                             Pt(img.w, img.h), Pt(0, img.h)>>, s)
            IN  <<Room("GrossArea", poly_ft)>>

\* faulty variant: no placeholder when there is no bounding box
FallbackStageNoPlaceholder(rooms_ft, walls, rooms_px, s) ==
    IF rooms_ft # <<>> \/ bbox_union_px(walls, rooms_px) = NoBox THEN rooms_ft
    ELSE <<Room("GrossArea", scale_poly(bbox_union_px(walls, rooms_px), s))>>

\* faulty variant: a GrossArea room is added to the measured rooms
FallbackStageAppend(rooms_ft, walls, rooms_px, s) ==
    rooms_ft \o <<Room("GrossArea", synthesize_small_box_ft)>>

\* faulty variant: a degenerate bounding box is kept as the room
FallbackStageNoAreaGuard(rooms_ft, walls, rooms_px, s) ==
    IF rooms_ft # <<>> THEN rooms_ft
    ELSE IF bbox_union_px(walls, rooms_px) # NoBox
    THEN <<Room("GrossArea", scale_poly(bbox_union_px(walls, rooms_px), s))>>
    ELSE <<Room("SyntheticArea", synthesize_small_box_ft)>>

\* faulty variant: the placeholder without a bounding box is named GrossArea
FallbackStageGrossName(rooms_ft, walls, rooms_px, s) ==
    IF rooms_ft # <<>> THEN rooms_ft
    ELSE IF bbox_union_px(walls, rooms_px) # NoBox
            /\ RGt(shoelace_area_and_perim(scale_poly(bbox_union_px(walls, rooms_px), s)).area,
                   MinArea)
    THEN <<Room("GrossArea", scale_poly(bbox_union_px(walls, rooms_px), s))>>
    ELSE <<Room("GrossArea", synthesize_small_box_ft)>>

\* Still nothing? use bbox if present, else tiny synthetic
FallbackStage(rooms_ft, walls, rooms_px, s) ==
    LET bbox_px == bbox_union_px(walls, rooms_px)
        scaled == scale_poly(bbox_px, s)
    IN  IF rooms_ft # <<>> THEN rooms_ft
        ELSE IF bbox_px # NoBox
        THEN (IF RLe(shoelace_area_and_perim(scaled).area, MinArea)
              THEN <<Room("GrossArea", synthesize_small_box_ft)>>
              ELSE <<Room("GrossArea", scaled)>>)
        ELSE <<Room("SyntheticArea", synthesize_small_box_ft)>>

\* 5) Walls -> feet lengths
RECURSIVE WallsStage(_, _)
WallsStage(walls_px, s) ==
    IF walls_px = <<>> THEN <<>>
    ELSE LET p == Head(walls_px).poly_px
         IN  (IF Len(p) < 2 THEN <<>>
              ELSE <<[polyline_ft |-> scale_poly(p, s),
                      length_ft |-> Round3(PathLen(scale_poly(p, s), 2))]>>)
             \o WallsStage(Tail(walls_px), s)

\* faulty variant: the wall total is summed over the room perimeters
TotalsWallsFromRooms(rooms_ft, walls_ft) ==
    [total_area_ft2 |-> Round3(RSum([i \in 1..Len(rooms_ft) |-> rooms_ft[i].area_ft2])),
     total_perimeter_ft |->
        Round3(RSum([i \in 1..Len(rooms_ft) |-> rooms_ft[i].perimeter_ft])),
     total_wall_length_ft |->
        Round3(RSum([i \in 1..Len(rooms_ft) |-> rooms_ft[i].perimeter_ft]))]

\* 6) Totals
Totals(rooms_ft, walls_ft) ==
    [total_area_ft2 |-> Round3(RSum([i \in 1..Len(rooms_ft) |-> rooms_ft[i].area_ft2])),
     total_perimeter_ft |->
        Round3(RSum([i \in 1..Len(rooms_ft) |-> rooms_ft[i].perimeter_ft])),
     total_wall_length_ft |->
        Round3(RSum([i \in 1..Len(walls_ft) |-> walls_ft[i].length_ft]))]

NoTotals == [total_area_ft2 |-> None, total_perimeter_ft |-> None,
             total_wall_length_ft |-> None]

\* 7) The two files.  exists = FALSE: the file is not there.
VARIABLES area_file, walls_file     \* metrics_area.json, metrics_walls.json

NoAreaFile == [exists |-> FALSE, scale_ft_per_px |-> None, scale_source |-> "",
               rooms |-> <<>>, totals |-> NoTotals]

NoWallsFile == [exists |-> FALSE, walls |-> <<>>, total_wall_length_ft |-> None]

\* faulty variant: the rooms are added to those already in the file
AreaPayloadMerged(s, src, rooms_ft, walls_ft) ==
    [exists |-> TRUE, scale_ft_per_px |-> s, scale_source |-> src,
     rooms |-> area_file.rooms \o rooms_ft,
     totals |-> Totals(area_file.rooms \o rooms_ft, walls_ft)]

AreaPayload(s, src, rooms_ft, walls_ft) ==
    [exists |-> TRUE, scale_ft_per_px |-> s, scale_source |-> src,
     rooms |-> rooms_ft, totals |-> Totals(rooms_ft, walls_ft)]

WallsPayload(rooms_ft, walls_ft) ==
    [exists |-> TRUE, walls |-> walls_ft,
     total_wall_length_ft |-> Totals(rooms_ft, walls_ft).total_wall_length_ft]

\* the returned dictionary.  returned = FALSE: build_metrics has not returned
NoResult == [returned |-> FALSE, ocr_geometry_used |-> FALSE, scale_ft_per_px |-> None,
             scale_source |-> "", totals |-> NoTotals]

Summary(s, src, rooms_ft, walls_ft) ==
    [returned |-> TRUE, ocr_geometry_used |-> TRUE, scale_ft_per_px |-> s,
     scale_source |-> src, totals |-> Totals(rooms_ft, walls_ft)]

\* build_metrics from the OCR JSON to the two payloads, as one function
\* (what the geometry subprocess of /estimate computes)
Payloads(d, rooms, walls) ==
    [raised |-> FALSE,
     area |-> AreaPayload(d.ft_per_px, d.scale_source, rooms, walls),
     walls |-> WallsPayload(rooms, walls)]

\* steps 3 to 7 under the resolved scale d
Measure(ocr, img, m, d) ==
    Payloads(d,
             FallbackStage(GuaranteeStage(RoomsStage(ocr.rooms, d.ft_per_px),
                                          m.manual_used, m.kw, m.kh, ocr.walls,
                                          ocr.rooms, img, d.ft_per_px),
                           ocr.walls, ocr.rooms, d.ft_per_px),
             WallsStage(ocr.walls, d.ft_per_px))

\* step 2 after the heuristic result h
Resolve(h) == DefaultStage(h.ft_per_px, h.scale_source)

\* after the manual step m: the exception ends the run, nothing is written
AfterManual(ocr, img, m) ==
    IF m.raised THEN [raised |-> TRUE, area |-> NoAreaFile, walls |-> NoWallsFile]
    ELSE Measure(ocr, img, m,
                 Resolve(HeuristicStage(m.ft_per_px, m.scale_source, ocr.dims)))

\* after the OCR tier o
AfterOcr(ocr, file, img, o) ==
    AfterManual(ocr, img,
                ManualStage(o.ft_per_px, o.scale_source, file, ocr.walls, ocr.rooms, img))

build_metrics(ocr, file, img) == AfterOcr(ocr, file, img, OcrStage(ocr.dims))

\* ------------------------------------------------------------------------
\* Inputs of one build_metrics run
\* ------------------------------------------------------------------------
MaxDims == 2

SeqsUpTo(S, n) == UNION {[1..k -> S] : k \in 0..n}

\* token lists up to MaxDims long; the order of the tokens is immaterial to
\* build_metrics, so one order per multiset is enumerated
DimsLists ==
    { Tup([i \in 1..Len(ix) |-> TokenList[ix[i]]]) :
        ix \in { s \in SeqsUpTo(1..Len(TokenList), MaxDims) :
                    \A i \in 1..(Len(s) - 1) : s[i] <= s[i + 1] } }

Rect == [name |-> "", poly_px |-> <<Pt(0, 0), Pt(0, 200), Pt(400, 200), Pt(400, 0)>>]
Closet == [name |-> "Closet", poly_px |-> <<Pt(0, 0), Pt(3, 0), Pt(3, 3), Pt(0, 3)>>]
Line == [name |-> "Line", poly_px |-> <<Pt(0, 0), Pt(400, 0)>>]

\* "rooms" of the OCR JSON: none, a 400 x 200 px room without a name, a
\* 3 x 3 px closet, a two-vertex outline, and two rooms
RoomLists == {<<>>, <<Rect>>, <<Closet>>, <<Line>>, <<Rect, Closet>>}

\* "walls" of the OCR JSON: none, an L-shaped polyline, a vertical segment
WallLists ==
    { <<>>,
      <<[poly_px |-> <<Pt(0, 0), Pt(400, 0), Pt(400, 300)>>]>>,
      <<[poly_px |-> <<Pt(100, 0), Pt(100, 300)>>]>> }

ManualObj(a, b) == [kind |-> "object", kw |-> a, kh |-> b]

ManualFiles ==
    { [kind |-> "missing", kw |-> None, kh |-> None],
      [kind |-> "invalid", kw |-> None, kh |-> None],
      [kind |-> "other", kw |-> None, kh |-> None],
      ManualObj(R(20), None), ManualObj(None, R(10)),
      ManualObj(R(20), R(10)), ManualObj(R(0), R(10)), ManualObj(R(-20), None),
      ManualObj(Q(1, 100), None), ManualObj(StrV, R(10)), ManualObj(R(20), StrV) }

Images ==
    {[path |-> FALSE, ok |-> FALSE, w |-> 0, h |-> 0],
     [path |-> TRUE, ok |-> FALSE, w |-> 0, h |-> 0],
     [path |-> TRUE, ok |-> TRUE, w |-> 400, h |-> 200]}

\* ------------------------------------------------------------------------
\* State of one build_metrics run
\* ------------------------------------------------------------------------
VARIABLES
    dims, rooms_px, walls_px,   \* the OCR JSON
    manual_file,                \* data/output/manual_scale.json
    preproc,                    \* the image at preproc_path
    pc,                         \* position in build_metrics
    ft_per_px, scale_source, manual_used, kw, kh, rooms_ft, walls_ft,
    tier,                       \* which assignment produced ft_per_px
    result                      \* the dictionary build_metrics returns

\* State of the web server handling /estimate requests
VARIABLES
    same_loop,                  \* the requests are served by one event loop
    plan, known,                \* per request: uploaded plan, known_width/height_ft
    epc, ocr_ok,                \* per request: position in estimate, its ocr_ok
    run_manual, run_preproc,    \* per request: runs/<run_id>/manual_scale.json, preproc.png
    run_area, run_walls,        \* per request: runs/<run_id>/metrics/*.json
    data_manual, data_ocr,      \* DATA_DIR/manual_scale.json, ocr_dims.json
    data_area, data_walls,      \* DATA_DIR/metrics_area.json, metrics_walls.json
    status                      \* per request: runs/<run_id>/status.json

    \* ocr_dims.process on one OCR line, then _to_feet and
    \* _estimate_scale_from_dims on the same text
VARIABLES
    raw, companions,            \* the text; the other tokens of the list
    qpc,                        \* "read" -> "parsed" -> "feet" -> "done", or "off"
    val, ocr_json,              \* parse_dimension's result, the dims process writes
    feet_val, scale             \* _to_feet's result, the estimated scale

    \* metrics_walls.py, one run
VARIABLES
    img, lines, per_pixel,      \* the plan image, the scaled lines and their scale
    margin,                     \* --margin
    wpc, done,                  \* "start" -> "loop" -> "written" / "raised"; lines done
    exterior, interior,         \* the records of either class
    total_len_real, total_ext_real, total_int_real,
    out                         \* metrics_walls.json

    \* build_metrics called a second time on the same inputs
VARIABLES
    calls,                      \* how many calls have been started
    first,                      \* what the first call left: how it ended, files, result
    ocr_exists                  \* the geometry command: the file at --ocr exists

run == <<dims, rooms_px, walls_px, manual_file, preproc, pc, ft_per_px,
         scale_source, manual_used, kw, kh, rooms_ft, walls_ft, tier,
         area_file, walls_file, result>>

server == <<same_loop, plan, known, epc, ocr_ok, run_manual, run_preproc,
            run_area, run_walls, data_manual, data_ocr, data_area, data_walls,
            status>>

parser == <<raw, companions, qpc, val, ocr_json, feet_val, scale>>

aggregator == <<img, lines, per_pixel, margin, wpc, done, exterior, interior,
                total_len_real, total_ext_real, total_int_real, out>>

history == <<calls, first, ocr_exists>>

tools == <<parser, aggregator, history>>

vars == <<run, server, tools>>

inputs == <<dims, rooms_px, walls_px, manual_file, preproc>>

\* ------------------------------------------------------------------------
\* Inputs and files of the /estimate requests
\* ------------------------------------------------------------------------
Reqs == {1, 2}

\* An uploaded plan: whether cv2 can read it, its size, and the dimension
\* lines ocr_dims.py reads off it ({"text", "feet"} only, no endpoints).
NoImage == [path |-> FALSE, ok |-> FALSE, w |-> 0, h |-> 0]
Image(w, h) == [path |-> TRUE, ok |-> TRUE, w |-> w, h |-> h]

\* tessedit_char_whitelist=0123456789xX'"\u2019, and the line is not blank
IsOcrLine(t) ==
    /\ Strip(t) # <<>>
    /\ \A k \in 1..Len(t) : t[k] \in Digits \cup Spaces \cup {"x", "X", "'", "\"", "rsquo"}

\* bool(val): None and 0.0 are falsy, a list of two floats is truthy
ValTruthy(v) == v.kind = "list" \/ (v.kind = "float" /\ Truthy(v.a))

\* faulty variant: the entry also carries the endpoints of a 120 px line
DimOfWithEnds(line) ==
    Tok(Pt(0, 0), Pt(120, 0),
        IF parse_dimension(line).kind = "float" THEN parse_dimension(line).a ELSE StrV,
        Strip(line))

\* the entry process appends for a line: "text" and "feet", the latter a float
\* or a list of two floats (not a number: StrV)
DimOf(line) ==
    Tok(NoPt, NoPt,
        IF parse_dimension(line).kind = "float" THEN parse_dimension(line).a ELSE StrV,
        Strip(line))

\* the "dims" ocr_dims.process writes for the lines tesseract returned
RECURSIVE ProcessDims(_)
ProcessDims(ocr_lines) ==
    IF ocr_lines = <<>> THEN <<>>
    ELSE (IF IsOcrLine(Head(ocr_lines)) /\ ValTruthy(parse_dimension(Head(ocr_lines)))
          THEN <<DimOf(Head(ocr_lines))>> ELSE <<>>) \o ProcessDims(Tail(ocr_lines))

\* the lines of a plan with a compound size, a bare number and feet with inches
SizeLines ==
    << <<"1", "2", "x", "1", "6", "'">>, <<"1", "2">>, <<"1", "2", "'", " ", "6", "\"">> >>

Plans ==
    { [ok |-> FALSE, w |-> 0, h |-> 0, dims |-> <<>>],
      [ok |-> TRUE, w |-> 400, h |-> 200, dims |-> <<TokenList[5]>>],
      [ok |-> TRUE, w |-> 800, h |-> 400, dims |-> <<>>],
      [ok |-> TRUE, w |-> 600, h |-> 300, dims |-> ProcessDims(SizeLines)] }

\* the known_width_ft / known_height_ft form fields
Knowns ==
    { [kw |-> None, kh |-> None], [kw |-> R(20), kh |-> None],
      [kw |-> R(40), kh |-> None], [kw |-> None, kh |-> R(10)] }

\* manual_scale_payload
manual_scale_payload(k) == ManualObj(OrNone(k.kw), OrNone(k.kh))

NoManual == [kind |-> "missing", kw |-> None, kh |-> None]
NoOcr == [exists |-> FALSE, dims |-> <<>>]

\* faulty variant: the placeholder has no room
PlaceholderNoRooms ==
    [exists |-> TRUE, scale_ft_per_px |-> None, scale_source |-> "",
     rooms |-> <<>>,
     totals |-> [total_area_ft2 |-> R(0), total_perimeter_ft |-> R(0),
                 total_wall_length_ft |-> R(0)]]

\* the placeholder metrics written when the OCR pipeline failed
Placeholder ==
    [exists |-> TRUE, scale_ft_per_px |-> None, scale_source |-> "",
     rooms |-> <<[name |-> "SyntheticArea", polygon_ft |-> synthesize_small_box_ft,
                  area_ft2 |-> R(100), perimeter_ft |-> R(40)]>>,
     totals |-> [total_area_ft2 |-> R(100), total_perimeter_ft |-> R(40),
                 total_wall_length_ft |-> R(0)]]

PlaceholderWalls == [exists |-> TRUE, walls |-> <<>>, total_wall_length_ft |-> R(0)]

ParserOff ==
    /\ raw = <<>> /\ companions = <<>> /\ qpc = "off"
    /\ val = NoVal /\ ocr_json = <<>> /\ feet_val = None /\ scale = None

AggregatorOff ==
    /\ img = NoImage /\ lines = <<>> /\ per_pixel = R(1) /\ margin = 0
    /\ wpc = "off" /\ done = 0 /\ exterior = <<>> /\ interior = <<>>
    /\ total_len_real = R(0) /\ total_ext_real = R(0) /\ total_int_real = R(0)
    /\ out = [exists |-> FALSE]

NoCall == [pc |-> "none", area_file |-> NoAreaFile, walls_file |-> NoWallsFile,
           result |-> NoResult]

HistoryOff == calls = 1 /\ first = NoCall /\ ocr_exists = TRUE

ToolsIdle == ParserOff /\ AggregatorOff /\ HistoryOff

NoStatus == [written |-> FALSE, ocr_geometry_used |-> FALSE, scale_ft_per_px |-> None,
             totals |-> NoTotals]

\* status.json, from the metrics_area.json stored for the request
StatusOf(ocr_ok_r, area) ==
    [written |-> TRUE,
     ocr_geometry_used |->
         ocr_ok_r /\ ~(area.rooms # <<>> /\ area.rooms[1].name = "SyntheticArea"),
     scale_ft_per_px |-> area.scale_ft_per_px,
     totals |-> area.totals]

ServerIdle ==
    /\ status = [r \in Reqs |-> NoStatus]
    /\ same_loop = TRUE
    /\ plan = [r \in Reqs |-> [ok |-> FALSE, w |-> 0, h |-> 0, dims |-> <<>>]]
    /\ known = [r \in Reqs |-> [kw |-> None, kh |-> None]]
    /\ epc = [r \in Reqs |-> "done"]
    /\ ocr_ok = [r \in Reqs |-> TRUE]
    /\ run_manual = [r \in Reqs |-> NoManual]
    /\ run_preproc = [r \in Reqs |-> NoImage]
    /\ run_area = [r \in Reqs |-> NoAreaFile]
    /\ run_walls = [r \in Reqs |-> NoWallsFile]
    /\ data_manual = NoManual
    /\ data_ocr = NoOcr
    /\ data_area = NoAreaFile
    /\ data_walls = NoWallsFile

Init ==
    /\ ServerIdle
    /\ ToolsIdle
    /\ dims \in DimsLists
    /\ rooms_px \in RoomLists
    /\ walls_px \in WallLists
    /\ manual_file \in ManualFiles
    /\ preproc \in Images
    /\ pc = "ocr"
    /\ ft_per_px = None
    /\ scale_source = "default"
    /\ manual_used = FALSE
    /\ kw = None
    /\ kh = None
    /\ rooms_ft = <<>>
    /\ walls_ft = <<>>
    /\ tier = "none"
    /\ area_file = NoAreaFile
    /\ walls_file = NoWallsFile
    /\ result = NoResult

OcrTier ==
    /\ pc = "ocr"
    /\ LET r == OcrStage(dims)
       IN  /\ ft_per_px' = r.ft_per_px
           /\ scale_source' = r.scale_source
           /\ tier' = IF r.ft_per_px # None THEN "ocr" ELSE tier
    /\ pc' = "manual"
    /\ UNCHANGED <<server, tools, inputs, manual_used, kw, kh, rooms_ft, walls_ft, area_file, walls_file, result>>

ManualOverride ==
    /\ pc = "manual"
    /\ LET r == ManualStage(ft_per_px, scale_source, manual_file, walls_px, rooms_px, preproc)
       IN  /\ ft_per_px' = r.ft_per_px
           /\ scale_source' = r.scale_source
           /\ manual_used' = r.manual_used
           /\ kw' = r.kw
           /\ kh' = r.kh
           /\ tier' = IF r.manual_used THEN "manual" ELSE tier
           /\ pc' = IF r.raised THEN "raised" ELSE "heuristic"
    /\ UNCHANGED <<server, tools, inputs, rooms_ft, walls_ft, area_file, walls_file, result>>

WeakHeuristic ==
    /\ pc = "heuristic"
    /\ LET r == HeuristicStage(ft_per_px, scale_source, dims)
       IN  /\ ft_per_px' = r.ft_per_px
           /\ scale_source' = r.scale_source
           /\ tier' = IF HeuristicApplies(ft_per_px, dims) THEN "heuristic" ELSE tier
    /\ pc' = "default"
    /\ UNCHANGED <<server, tools, inputs, manual_used, kw, kh, rooms_ft, walls_ft, area_file, walls_file, result>>

DefaultTier ==
    /\ pc = "default"
    /\ LET r == DefaultStage(ft_per_px, scale_source)
       IN  /\ ft_per_px' = r.ft_per_px
           /\ scale_source' = r.scale_source
           /\ tier' = IF ft_per_px = None THEN "default" ELSE tier
    /\ pc' = "rooms"
    /\ UNCHANGED <<server, tools, inputs, manual_used, kw, kh, rooms_ft, walls_ft, area_file, walls_file, result>>

RoomsToFeet ==
    /\ pc = "rooms"
    /\ rooms_ft' = RoomsStage(rooms_px, ft_per_px)
    /\ pc' = "guarantee"
    /\ UNCHANGED <<server, tools, inputs, ft_per_px, scale_source, manual_used, kw, kh, walls_ft,
                   tier, area_file, walls_file, result>>

GuaranteeArea ==
    /\ pc = "guarantee"
    /\ rooms_ft' = GuaranteeStage(rooms_ft, manual_used, kw, kh, walls_px, rooms_px,
                                  preproc, ft_per_px)
    /\ pc' = "fallback"
    /\ UNCHANGED <<server, tools, inputs, ft_per_px, scale_source, manual_used, kw, kh, walls_ft,
                   tier, area_file, walls_file, result>>

StillNothing ==
    /\ pc = "fallback"
    /\ rooms_ft' = FallbackStage(rooms_ft, walls_px, rooms_px, ft_per_px)
    /\ pc' = "walls"
    /\ UNCHANGED <<server, tools, inputs, ft_per_px, scale_source, manual_used, kw, kh, walls_ft,
                   tier, area_file, walls_file, result>>

WallsToFeet ==
    /\ pc = "walls"
    /\ walls_ft' = WallsStage(walls_px, ft_per_px)
    /\ pc' = "write"
    /\ UNCHANGED <<server, tools, inputs, ft_per_px, scale_source, manual_used, kw, kh, rooms_ft,
                   tier, area_file, walls_file, result>>

WriteFiles ==
    /\ pc = "write"
    /\ area_file' = AreaPayload(ft_per_px, scale_source, rooms_ft, walls_ft)
    /\ walls_file' = WallsPayload(rooms_ft, walls_ft)
    /\ result' = Summary(ft_per_px, scale_source, rooms_ft, walls_ft)
    /\ pc' = "done"
    /\ UNCHANGED <<server, tools, inputs, ft_per_px, scale_source, manual_used, kw, kh, rooms_ft,
                   walls_ft, tier>>

Next ==
    \/ OcrTier
    \/ ManualOverride
    \/ WeakHeuristic
    \/ DefaultTier
    \/ RoomsToFeet
    \/ GuaranteeArea
    \/ StillNothing
    \/ WallsToFeet
    \/ WriteFiles

Spec == Init /\ [][Next]_vars

\* ------------------------------------------------------------------------
\* build_metrics twice on the same inputs.  The second call starts with fresh
\* locals (lines 162-164, 222, 297) and finds on disk the two files the first
\* call wrote.
\* ------------------------------------------------------------------------
RepeatedDims == {<<>>, <<TokenList[1]>>, <<TokenList[7]>>}

InitTwice == Init /\ dims \in RepeatedDims

CallAgain ==
    /\ calls = 1
    /\ pc \in {"done", "raised"}
    /\ first' = [pc |-> pc, area_file |-> area_file, walls_file |-> walls_file,
                 result |-> result]
    /\ calls' = 2
    /\ pc' = "ocr"
    /\ ft_per_px' = None
    /\ scale_source' = "default"
    /\ manual_used' = FALSE
    /\ kw' = None
    /\ kh' = None
    /\ rooms_ft' = <<>>
    /\ walls_ft' = <<>>
    /\ tier' = "none"
    /\ result' = NoResult
    /\ UNCHANGED <<server, parser, aggregator, inputs, area_file, walls_file, ocr_exists>>

NextTwice == Next \/ CallAgain

SpecTwice == InitTwice /\ [][NextTwice]_vars

\* ------------------------------------------------------------------------
\* The geometry command, main: the OCR JSON must exist, then build_metrics.
\* ------------------------------------------------------------------------
InitMain ==
    /\ ServerIdle
    /\ ParserOff /\ AggregatorOff
    /\ calls = 1 /\ first = NoCall
    /\ ocr_exists \in BOOLEAN
    /\ dims \in IF ocr_exists THEN RepeatedDims ELSE {<<>>}
    /\ rooms_px \in IF ocr_exists THEN RoomLists ELSE {<<>>}
    /\ walls_px \in IF ocr_exists THEN WallLists ELSE {<<>>}
    /\ manual_file \in ManualFiles
    /\ preproc \in Images
    /\ pc = "main"
    /\ ft_per_px = None /\ scale_source = "default" /\ manual_used = FALSE
    /\ kw = None /\ kh = None /\ rooms_ft = <<>> /\ walls_ft = <<>> /\ tier = "none"
    /\ area_file = NoAreaFile /\ walls_file = NoWallsFile /\ result = NoResult

\* if not ocr_path.exists(): raise SystemExit; else build_metrics is called
main ==
    /\ pc = "main"
    /\ pc' = IF ocr_exists THEN "ocr" ELSE "aborted"
    /\ UNCHANGED <<server, tools, inputs, ft_per_px, scale_source, manual_used, kw, kh,
                   rooms_ft, walls_ft, tier, area_file, walls_file, result>>

NextMain == main \/ Next

SpecMain == InitMain /\ [][NextMain]_vars

\* ------------------------------------------------------------------------
\* build_metrics on more shapes: rooms in either order, a triangle behind a
\* two-vertex room, a wall of a single vertex.
\* ------------------------------------------------------------------------
Den == [name |-> "Den", poly_px |-> <<Pt(0, 0), Pt(300, 0), Pt(0, 400)>>]
Dot == [poly_px |-> <<Pt(50, 50)>>]
\* Rect wound the other way
RectBack == [name |-> "Back", poly_px |-> <<Pt(400, 0), Pt(400, 200), Pt(0, 200), Pt(0, 0)>>]

ShapeRoomLists ==
    RoomLists \cup {<<Closet, Rect>>, <<Line, Den, Rect>>, <<Rect, RectBack>>}
ShapeWallLists ==
    WallLists \cup {<<Dot>>, <<Dot, [poly_px |-> <<Pt(0, 0), Pt(400, 0), Pt(400, 300)>>]>>}

InitShapes ==
    /\ ServerIdle
    /\ ToolsIdle
    /\ dims \in {<<>>, <<TokenList[1]>>}
    /\ rooms_px \in ShapeRoomLists
    /\ walls_px \in ShapeWallLists
    /\ manual_file \in {NoManual, ManualObj(R(20), None), ManualObj(None, R(10)),
                         ManualObj(Q(1, 100), None), ManualObj(R(-20), None)}
    /\ preproc \in Images
    /\ pc = "ocr"
    /\ ft_per_px = None /\ scale_source = "default" /\ manual_used = FALSE
    /\ kw = None /\ kh = None /\ rooms_ft = <<>> /\ walls_ft = <<>> /\ tier = "none"
    /\ area_file = NoAreaFile /\ walls_file = NoWallsFile /\ result = NoResult

SpecShapes == InitShapes /\ [][Next]_vars

\* ------------------------------------------------------------------------
\* POST /estimate, two requests.  A step is one block of the handler between
\* two file-system effects; a subprocess is one step.  The handler is a
\* coroutine whose only await is the read of the upload: on one event loop
\* the rest of a request runs without the other getting a turn, with several
\* server processes the steps of the two requests interleave freely.  The
\* pricing engine that follows reads only files under runs/<run_id>.
\* ------------------------------------------------------------------------
RunOff ==
    /\ dims = <<>> /\ rooms_px = <<>> /\ walls_px = <<>>
    /\ manual_file = NoManual /\ preproc = NoImage
    /\ pc = "off" /\ ft_per_px = None /\ scale_source = "default"
    /\ manual_used = FALSE /\ kw = None /\ kh = None
    /\ rooms_ft = <<>> /\ walls_ft = <<>> /\ tier = "none"
    /\ area_file = NoAreaFile /\ walls_file = NoWallsFile /\ result = NoResult

InitEstimate ==
    /\ RunOff
    /\ ToolsIdle
    /\ same_loop \in BOOLEAN
    /\ plan \in [Reqs -> Plans]
    /\ known \in [Reqs -> Knowns]
    /\ epc = [r \in Reqs |-> "upload"]
    /\ status = [r \in Reqs |-> NoStatus]
    /\ ocr_ok = [r \in Reqs |-> TRUE]
    /\ run_manual = [r \in Reqs |-> NoManual]
    /\ run_preproc = [r \in Reqs |-> NoImage]
    /\ run_area = [r \in Reqs |-> NoAreaFile]
    /\ run_walls = [r \in Reqs |-> NoWallsFile]
    /\ data_manual = NoManual
    /\ data_ocr = NoOcr
    /\ data_area = NoAreaFile
    /\ data_walls = NoWallsFile

\* r may take a step: on one event loop no other request is past its await
\* and before its end
MayRun(r) ==
    same_loop => \A q \in Reqs \ {r} : epc[q] \in {"upload", "done", "failed"}

\* run_dir is made, the upload is read and written to plan_path
Upload(r) ==
    /\ epc[r] = "upload" /\ MayRun(r)
    /\ epc' = [epc EXCEPT ![r] = "payload"]
    /\ UNCHANGED <<run, tools, status, same_loop, plan, known, ocr_ok, run_manual, run_preproc,
                   run_area, run_walls, data_manual, data_ocr, data_area, data_walls>>

\* manual_scale.json is written under run_dir and under DATA_DIR
WriteManualScale(r) ==
    /\ epc[r] = "payload" /\ MayRun(r)
    /\ run_manual' = [run_manual EXCEPT ![r] = manual_scale_payload(known[r])]
    /\ data_manual' = manual_scale_payload(known[r])
    /\ epc' = [epc EXCEPT ![r] = "unlink"]
    /\ UNCHANGED <<run, tools, status, same_loop, plan, known, ocr_ok, run_preproc,
                   run_area, run_walls, data_ocr, data_area, data_walls>>

\* ocr_dims.json, metrics_area.json, metrics_walls.json of DATA_DIR are removed
UnlinkTmp(r) ==
    /\ epc[r] = "unlink" /\ MayRun(r)
    /\ data_ocr' = NoOcr
    /\ data_area' = NoAreaFile
    /\ data_walls' = NoWallsFile
    /\ epc' = [epc EXCEPT ![r] = "preprocess"]
    /\ UNCHANGED <<run, tools, status, same_loop, plan, known, ocr_ok, run_manual, run_preproc,
                   run_area, run_walls, data_manual>>

\* preprocess.py: plan_path -> run_dir/preproc.png
Preprocess(r) ==
    /\ epc[r] = "preprocess" /\ MayRun(r)
    /\ run_preproc' = [run_preproc EXCEPT
                         ![r] = IF plan[r].ok THEN Image(plan[r].w, plan[r].h) ELSE @]
    /\ ocr_ok' = [ocr_ok EXCEPT ![r] = plan[r].ok /\ run_preproc'[r].path]
    /\ epc' = [epc EXCEPT ![r] = "ocr"]
    /\ UNCHANGED <<run, tools, status, same_loop, plan, known, run_manual,
                   run_area, run_walls, data_manual, data_ocr, data_area, data_walls>>

\* ocr_dims.py: run_dir/preproc.png -> DATA_DIR/ocr_dims.json
OcrDims(r) ==
    /\ epc[r] = "ocr" /\ MayRun(r)
    /\ data_ocr' = IF ocr_ok[r] THEN [exists |-> TRUE, dims |-> plan[r].dims] ELSE data_ocr
    /\ ocr_ok' = [ocr_ok EXCEPT ![r] = @ /\ data_ocr'.exists]
    /\ epc' = [epc EXCEPT ![r] = "geometry"]
    /\ UNCHANGED <<run, tools, status, same_loop, plan, known, run_manual, run_preproc,
                   run_area, run_walls, data_manual, data_area, data_walls>>

\* geometry_from_dims.py on DATA_DIR/ocr_dims.json with --preproc: main exits
\* when the OCR JSON is not there, build_metrics reads DATA_DIR/manual_scale.json
GeometryResult(r) ==
    build_metrics([dims |-> data_ocr.dims, rooms |-> <<>>, walls |-> <<>>],
                  data_manual, run_preproc[r])

Geometry(r) ==
    /\ epc[r] = "geometry" /\ MayRun(r)
    /\ LET wrote == ocr_ok[r] /\ data_ocr.exists /\ ~GeometryResult(r).raised
       IN  /\ data_area' = IF wrote THEN GeometryResult(r).area ELSE data_area
           /\ data_walls' = IF wrote THEN GeometryResult(r).walls ELSE data_walls
           /\ ocr_ok' = [ocr_ok EXCEPT ![r] = wrote /\ data_walls'.exists]
    /\ epc' = [epc EXCEPT ![r] = "store"]
    /\ UNCHANGED <<run, tools, status, same_loop, plan, known, run_manual, run_preproc,
                   run_area, run_walls, data_manual, data_ocr>>

\* the metrics are copied from DATA_DIR to run_dir/metrics, or the
\* placeholder is written, and status.json is written; copying a file that
\* is gone fails the request before status.json
StoreMetrics(r) ==
    /\ epc[r] = "store" /\ MayRun(r)
    /\ IF ocr_ok[r] /\ data_area.exists
       THEN /\ run_area' = [run_area EXCEPT ![r] = data_area]
            /\ run_walls' = [run_walls EXCEPT ![r] = data_walls]
            /\ epc' = [epc EXCEPT ![r] = IF data_walls.exists THEN "done" ELSE "failed"]
            /\ status' = [status EXCEPT
                             ![r] = IF data_walls.exists THEN StatusOf(TRUE, data_area)
                                    ELSE @]
       ELSE /\ run_area' = [run_area EXCEPT ![r] = Placeholder]
            /\ run_walls' = [run_walls EXCEPT ![r] = PlaceholderWalls]
            /\ epc' = [epc EXCEPT ![r] = "done"]
            /\ status' = [status EXCEPT ![r] = StatusOf(FALSE, Placeholder)]
    /\ UNCHANGED <<run, tools, same_loop, plan, known, ocr_ok, run_manual, run_preproc,
                   data_manual, data_ocr, data_area, data_walls>>

NextEstimate ==
    \/ \E r \in Reqs : Upload(r)
    \/ \E r \in Reqs : WriteManualScale(r)
    \/ \E r \in Reqs : UnlinkTmp(r)
    \/ \E r \in Reqs : Preprocess(r)
    \/ \E r \in Reqs : OcrDims(r)
    \/ \E r \in Reqs : Geometry(r)
    \/ \E r \in Reqs : StoreMetrics(r)

SpecEstimate == InitEstimate /\ [][NextEstimate]_vars

\* ------------------------------------------------------------------------
\* The Dimension Parser on one text: parse_dimension reads it (and
\* ocr_dims.process records it in the OCR JSON); _to_feet reads the same
\* text; _estimate_scale_from_dims meets it, with endpoints 120 px
\* apart and no "feet", at the head of a list of other tokens.
\* ------------------------------------------------------------------------
CompanionLists ==
    { <<>>, <<TokenList[1]>>, <<TokenList[1], TokenList[3]>>, <<TokenList[7]>> }

AsToken(text) == Tok(Pt(0, 0), Pt(120, 0), None, text)

InitParse ==
    /\ RunOff
    /\ ServerIdle
    /\ AggregatorOff
    /\ HistoryOff
    /\ raw \in Texts
    /\ companions \in CompanionLists
    /\ qpc = "read"
    /\ val = NoVal /\ ocr_json = <<>> /\ feet_val = None /\ scale = None

\* val = parse_dimension(text).  For a text tesseract can return under the
\* whitelist of extract_text this is the loop body of process: the line is
\* stripped, dropped when empty, and recorded when its value is truthy.
Process ==
    /\ qpc = "read"
    /\ val' = parse_dimension(raw)
    /\ ocr_json' = IF IsOcrLine(raw) /\ ValTruthy(parse_dimension(raw))
                   THEN <<[text |-> Strip(raw), feet |-> parse_dimension(raw)]>>
                   ELSE <<>>
    /\ qpc' = "parsed"
    /\ UNCHANGED <<run, server, aggregator, history, raw, companions, feet_val, scale>>

ToFeet ==
    /\ qpc = "parsed"
    /\ feet_val' = ToFeetCache[raw]
    /\ qpc' = "feet"
    /\ UNCHANGED <<run, server, aggregator, history, raw, companions, val, ocr_json, scale>>

EstimateScale ==
    /\ qpc = "feet"
    /\ scale' = estimate_scale_from_dims(<<AsToken(raw)>> \o companions)
    /\ qpc' = "done"
    /\ UNCHANGED <<run, server, aggregator, history, raw, companions, val, ocr_json, feet_val>>

NextParse ==
    \/ Process
    \/ ToFeet
    \/ EstimateScale

SpecParse == InitParse /\ [][NextParse]_vars

\* ------------------------------------------------------------------------
\* metrics_walls.py, the Wall Classifier & Aggregator.  The run reads the
\* plan image for its size and the scaled lines, classifies one line per
\* step of the loop, and writes the metrics.
\* ------------------------------------------------------------------------
\* faulty variant: only the first endpoint is looked at
classify_exterior_first_endpoint(p1, p2, w, h, margin_px) ==
    \/ RLe(p1[1], R(margin_px)) \/ RLe(R(w - margin_px), p1[1])
    \/ RLe(p1[2], R(margin_px)) \/ RLe(R(h - margin_px), p1[2])

\* A line is "exterior" if any endpoint is close to the image border
classify_exterior(p1, p2, w, h, margin_px) ==
    LET near_left == RLe(p1[1], R(margin_px)) \/ RLe(p2[1], R(margin_px))
        near_right == RLe(R(w - margin_px), p1[1]) \/ RLe(R(w - margin_px), p2[1])
        near_top == RLe(p1[2], R(margin_px)) \/ RLe(p2[2], R(margin_px))
        near_bottom == RLe(R(h - margin_px), p1[2]) \/ RLe(R(h - margin_px), p2[2])
    IN  near_left \/ near_right \/ near_top \/ near_bottom

line_length_px(p1, p2) == Hypot(RSub(p2[1], p1[1]), RSub(p2[2], p1[2]))

\* (degrees(atan2(dy, dx)) + 180) % 180, for the lines parallel to an axis
angle_deg(p1, p2) == CASE p1[2] = p2[2] -> R(0) [] p1[1] = p2[1] -> R(90)

\* round(x, 2)
Round2(a) == RDiv(Round3(RDiv(a, R(10))), Q(1, 10))

Seg(x1, y1, x2, y2) == [p1 |-> Pt(x1, y1), p2 |-> Pt(x2, y2)]

\* Lines of a 100 x 80 plan: in the middle, along the top border, and with
\* an endpoint on or one pixel inside the margins 30 and 10.
SegList ==
    << Seg(40, 40, 60, 40), Seg(0, 0, 100, 0), Seg(30, 40, 60, 40),
       Seg(31, 40, 69, 40), Seg(40, 31, 40, 49), Seg(40, 40, 40, 50),
       Seg(60, 40, 70, 40), Seg(40, 30, 40, 45), Seg(10, 40, 90, 40),
       Seg(89, 11, 89, 69) >>

MaxLines == 2

LineLists ==
    { Tup([k \in DOMAIN ix |-> SegList[ix[k]]]) : ix \in SeqsUpTo(DOMAIN SegList, MaxLines) }

Margins == {0, 10, 30}

PlanImages == {NoImage, Image(100, 80), Image(200, 160)}

NoMetrics == [exists |-> FALSE]

InitWalls ==
    /\ RunOff
    /\ ServerIdle
    /\ ParserOff
    /\ HistoryOff
    /\ img \in PlanImages
    /\ lines \in LineLists
    /\ per_pixel \in {R(1), Q(1, 2)}
    /\ margin \in Margins
    /\ wpc = "start"
    /\ done = 0
    /\ exterior = <<>> /\ interior = <<>>
    /\ total_len_real = R(0) /\ total_ext_real = R(0) /\ total_int_real = R(0)
    /\ out = NoMetrics

\* img = cv2.imread(args.img); the lines JSON is read
ReadPlan ==
    /\ wpc = "start"
    /\ wpc' = IF img.ok THEN "loop" ELSE "raised"
    /\ UNCHANGED <<run, server, parser, history, img, lines, per_pixel, margin, done, exterior,
                   interior, total_len_real, total_ext_real, total_int_real, out>>

\* faulty variant: the index does not advance
rec_first_index(i, L, is_ext) ==
    [index |-> 0, p1 |-> L.p1, p2 |-> L.p2,
     angle_deg |-> Round2(angle_deg(L.p1, L.p2)),
     length_px |-> Round2(line_length_px(L.p1, L.p2)),
     length_real |-> Round3(RMul(line_length_px(L.p1, L.p2), per_pixel)),
     class |-> IF is_ext THEN "exterior" ELSE "interior"]

\* the record of lines[i] (i counts from 0 in the source)
rec(i, L, is_ext) ==
    [index |-> i - 1, p1 |-> L.p1, p2 |-> L.p2,
     angle_deg |-> Round2(angle_deg(L.p1, L.p2)),
     length_px |-> Round2(line_length_px(L.p1, L.p2)),
     length_real |-> Round3(RMul(line_length_px(L.p1, L.p2), per_pixel)),
     class |-> IF is_ext THEN "exterior" ELSE "interior"]

\* one turn of the loop over the lines
ClassifyLine ==
    /\ wpc = "loop"
    /\ done < Len(lines)
    /\ LET L == lines[done + 1]
           length_real == RMul(line_length_px(L.p1, L.p2), per_pixel)
           is_ext == classify_exterior(L.p1, L.p2, img.w, img.h, margin)
       IN  /\ exterior' = IF is_ext THEN Append(exterior, rec(done + 1, L, TRUE))
                          ELSE exterior
           /\ interior' = IF is_ext THEN interior
                          ELSE Append(interior, rec(done + 1, L, FALSE))
           /\ total_ext_real' = IF is_ext THEN RAdd(total_ext_real, length_real)
                                ELSE total_ext_real
           /\ total_int_real' = IF is_ext THEN total_int_real
                                ELSE RAdd(total_int_real, length_real)
           /\ total_len_real' = RAdd(total_len_real, length_real)
    /\ done' = done + 1
    /\ UNCHANGED <<run, server, parser, history, img, lines, per_pixel, margin, wpc, out>>

\* faulty variant: the perimeter is the one of the image
MetricsOfImagePerimeter(xs, ys) ==
    [exists |-> TRUE, per_pixel |-> per_pixel,
     image_size |-> [w |-> img.w, h |-> img.h], margin_px |-> margin,
     counts |-> [total |-> Len(lines), exterior |-> Len(exterior),
                 interior |-> Len(interior)],
     totals |-> [sum_all |-> Round3(total_len_real),
                 sum_exterior |-> Round3(total_ext_real),
                 sum_interior |-> Round3(total_int_real),
                 bbox_perimeter |-> Round3(RMul(R(2 * (img.w + img.h)), per_pixel))],
     exterior |-> exterior, interior |-> interior,
     bbox_px |-> [minx |-> MinR(xs), maxx |-> MaxR(xs),
                  miny |-> MinR(ys), maxy |-> MaxR(ys)]]

\* the bounding box of all endpoints: min() and max() of an empty list raise
MetricsOf(xs, ys) ==
    [exists |-> TRUE, per_pixel |-> per_pixel,
     image_size |-> [w |-> img.w, h |-> img.h], margin_px |-> margin,
     counts |-> [total |-> Len(lines), exterior |-> Len(exterior),
                 interior |-> Len(interior)],
     totals |-> [sum_all |-> Round3(total_len_real),
                 sum_exterior |-> Round3(total_ext_real),
                 sum_interior |-> Round3(total_int_real),
                 bbox_perimeter |->
                     Round3(RMul(RMul(R(2), RAdd(RSub(MaxR(xs), MinR(xs)),
                                                 RSub(MaxR(ys), MinR(ys)))),
                                 per_pixel))],
     exterior |-> exterior, interior |-> interior,
     bbox_px |-> [minx |-> MinR(xs), maxx |-> MaxR(xs),
                  miny |-> MinR(ys), maxy |-> MaxR(ys)]]

WriteMetrics ==
    /\ wpc = "loop"
    /\ done = Len(lines)
    /\ IF lines = <<>>
       THEN wpc' = "raised" /\ out' = out
       ELSE /\ wpc' = "written"
            /\ out' = MetricsOf(
                   Flatten([k \in 1..Len(lines) |-> <<lines[k].p1[1], lines[k].p2[1]>>]),
                   Flatten([k \in 1..Len(lines) |-> <<lines[k].p1[2], lines[k].p2[2]>>]))
    /\ UNCHANGED <<run, server, parser, history, img, lines, per_pixel, margin, done, exterior,
                   interior, total_len_real, total_ext_real, total_int_real>>

NextWalls ==
    \/ ReadPlan
    \/ ClassifyLine
    \/ WriteMetrics

SpecWalls == InitWalls /\ [][NextWalls]_vars

\* ========================================================================
\* Properties of build_metrics
\* ========================================================================
Box == bbox_union_px(walls_px, rooms_px)
BoxW == RSub(Box[3][1], Box[1][1])
BoxH == RSub(Box[3][2], Box[1][2])

\* the rooms that survive normalization under the resolved scale
Measured == RoomsStage(rooms_px, ft_per_px)

\* the manual record as the caller wrote it: an object whose width and height
\* are numbers or absent
KnownW == OrNone(manual_file.kw)
KnownH == OrNone(manual_file.kh)
WellFormedManual ==
    /\ manual_file.kind = "object"
    /\ KnownW # None => IsNum(KnownW)
    /\ KnownH # None => IsNum(KnownH)

\* C1: whatever build_metrics writes to metrics_area.json has at least one
\* room, for every OCR JSON, manual-scale file and fallback image.
C1_RoomsNeverEmpty == area_file.exists => Len(area_file.rooms) >= 1

C1_Witness ==
    /\ area_file.exists
    /\ dims = <<>> /\ rooms_px = <<>> /\ walls_px = <<>>
    /\ ~preproc.path
    /\ Len(area_file.rooms) = 1

\* C2: the scale written by build_metrics is strictly positive for every
\* input, every numeric known width / height included.
C2_ScalePositive == area_file.exists => RPos(area_file.scale_ft_per_px)

\* what /estimate stores for request r when it is served alone
OwnMetrics(r) ==
    build_metrics([dims |-> plan[r].dims, rooms |-> <<>>, walls |-> <<>>],
                  manual_scale_payload(known[r]), Image(plan[r].w, plan[r].h))

OwnArea(r) ==
    IF plan[r].ok /\ ~OwnMetrics(r).raised THEN OwnMetrics(r).area ELSE Placeholder

OwnWalls(r) ==
    IF plan[r].ok /\ ~OwnMetrics(r).raised THEN OwnMetrics(r).walls ELSE PlaceholderWalls

\* C3: of two /estimate requests handled concurrently, each finds under
\* runs/<run_id>/metrics the metrics computed from its own plan image and
\* its own manual-scale values, whatever the interleaving.
C3_RequestsIsolated ==
    \A r \in Reqs :
        epc[r] \in {"done", "failed"}
            => run_area[r] = OwnArea(r) /\ run_walls[r] = OwnWalls(r)

\* served by one event loop, the two requests are isolated
IsolatedOnOneLoop == same_loop => C3_RequestsIsolated

\* C4 (as stated): once the OCR tier has produced the scale, no later tier
\* changes its value or its provenance.
C4_FirstTierWins ==
    [][tier = "ocr" => (ft_per_px' = ft_per_px /\ scale_source' = scale_source)]_vars

\* C4 (amended): past the manual step, an OCR value that the manual override
\* did not replace is the resolved scale, tagged 'ocr', and stays so through
\* the heuristic and default tiers to the end.
C4_OcrKeptUnlessManual ==
    (pc \notin {"ocr", "manual"} /\ estimate_scale_from_dims(dims) # None /\ ~manual_used)
        => (ft_per_px = estimate_scale_from_dims(dims) /\ scale_source = "ocr")

C4_Witness ==
    /\ pc = "done"
    /\ estimate_scale_from_dims(dims) # None
    /\ Guesses(dims) # <<>>
    /\ ~manual_used
    /\ area_file.scale_source = "ocr"

\* C5: whenever the manual tier is triggered (a known width or height is
\* supplied and the pixel extent on that axis, of the union bounding box or
\* else of the image, is positive) the resolved scale is known length over
\* pixel extent, tagged 'manual', whether or not the OCR tier found a value.
ExtentW == IF Box # NoBox THEN BoxW ELSE IF Readable(preproc) THEN R(preproc.w) ELSE R(0)
ExtentH == IF Box # NoBox THEN BoxH ELSE IF Readable(preproc) THEN R(preproc.h) ELSE R(0)

ManualTriggered ==
    /\ WellFormedManual
    /\ (KnownW # None /\ RPos(ExtentW)) \/ (KnownH # None /\ RPos(ExtentH))

ManualExpected ==
    IF KnownW # None /\ RPos(ExtentW) THEN RDiv(KnownW, ExtentW)
    ELSE RDiv(KnownH, ExtentH)

C5_ManualOverrides ==
    (pc = "done" /\ ManualTriggered)
        => /\ area_file.scale_ft_per_px = ManualExpected
           /\ area_file.scale_source = "manual"

C5_Witness ==
    /\ pc = "done"
    /\ manual_file = ManualObj(R(20), None)
    /\ Box # NoBox /\ BoxW = R(400)
    /\ estimate_scale_from_dims(dims) # None
    /\ area_file.scale_ft_per_px = Q(5, 100)
    /\ area_file.scale_source = "manual"

\* C6: the OCR tier returns the median of feet / pixel distance over exactly
\* the tokens with both endpoints, pixel distance > 3 and parsed length > 0,
\* and None when no token survives; (500 px, 10 ft), (250 px, 5 ft) give 0.02.
ParsedFeet(d) == IF IsNum(d.feet) THEN d.feet ELSE ToFeetCache[d.text]

Survives(d) ==
    /\ d.p1 # NoPt /\ d.p2 # NoPt
    /\ RGt(dist(d.p1, d.p2), R(3))
    /\ ParsedFeet(d) # None /\ RGt(ParsedFeet(d), R(0))

SurvivorIdx == {i \in 1..Len(dims) : Survives(dims[i])}

Ratio(i) == RDiv(ParsedFeet(dims[i]), dist(dims[i].p1, dims[i].p2))

\* the ratio of the given rank (1 = smallest) among the survivors
Ranked(r) ==
    Ratio(CHOOSE i \in SurvivorIdx :
            /\ Cardinality({j \in SurvivorIdx : RLe(Ratio(j), Ratio(i))}) >= r
            /\ Cardinality({j \in SurvivorIdx : RLe(Ratio(i), Ratio(j))})
                   >= Cardinality(SurvivorIdx) - r + 1)

MedianOfSurvivors ==
    RDiv(RAdd(Ranked((Cardinality(SurvivorIdx) + 1) \div 2),
              Ranked(Cardinality(SurvivorIdx) \div 2 + 1)), R(2))

ScenarioA == <<TokenList[1], TokenList[2]>>

C6_OcrMedian ==
    pc = "manual"
        => /\ ft_per_px = IF SurvivorIdx = {} THEN None ELSE MedianOfSurvivors
           /\ dims = ScenarioA => ft_per_px = Q(2, 100)

C6_Witness ==
    /\ pc = "manual"
    /\ Len(dims) = 2
    /\ Cardinality(SurvivorIdx) = 2
    /\ Ratio(1) # Ratio(2)
    /\ ft_per_px = RDiv(RAdd(Ratio(1), Ratio(2)), R(2))

\* C7 (as stated): the tag names the tier that produced the final scale:
\* 'ocr', 'manual', 'heuristic' or 'default'.
C7_TagNamesTier == pc = "done" => area_file.scale_source = tier

\* C7 (amended): the tag is 'manual' exactly when the manual override set the
\* scale, 'default' exactly when the constant did, and 'ocr' exactly when the
\* evidence-pair median or the door-width heuristic did; 'heuristic' is never
\* written.
C7_TagOfTier ==
    pc = "done"
        => area_file.scale_source = (IF tier = "heuristic" THEN "ocr" ELSE tier)

C7_Witness ==
    /\ pc = "done"
    /\ tier = "heuristic"
    /\ area_file.scale_source = "ocr"

\* C8: every room written has area_ft2 > 0 and total_area_ft2 is > 0.
C8_NonZeroGeometry ==
    area_file.exists
        => /\ \A i \in 1..Len(area_file.rooms) : RPos(area_file.rooms[i].area_ft2)
           /\ RPos(area_file.totals.total_area_ft2)

\* C9: if a room survives normalization the written rooms are exactly the
\* surviving measured rooms; if none survives exactly one fabricated room
\* (GrossArea or SyntheticArea) is written.
C9_SynthesizerOnlyWhenEmpty ==
    pc = "done"
        => IF Measured # <<>> THEN area_file.rooms = Measured
           ELSE /\ Len(area_file.rooms) = 1
                /\ area_file.rooms[1].name \in {"GrossArea", "SyntheticArea"}

C9_Witness ==
    /\ pc = "done"
    /\ manual_used
    /\ Measured # <<>>
    /\ area_file.rooms = Measured

\* C10 (as stated): with no surviving room and a manual override supplied
\* the fabricated room is the kw x kh rectangle in feet (a missing side from
\* the image's aspect ratio), even when raw pixel shapes exist.
ManualSupplied == WellFormedManual /\ (KnownW # None \/ KnownH # None)

RectW == IF KnownW # None THEN KnownW ELSE RMul(KnownH, Q(preproc.w, preproc.h))
RectH == IF KnownH # None THEN KnownH ELSE RMul(KnownW, Q(preproc.h, preproc.w))
ManualRect == <<Pt(0, 0), <<RectW, R(0)>>, <<RectW, RectH>>, <<R(0), RectH>> >>

C10_ManualRectFirst ==
    (pc = "done" /\ Measured = <<>> /\ ManualSupplied /\ Readable(preproc))
        => area_file.rooms[1].polygon_ft = ManualRect

\* C10 (amended): with no surviving room, a numeric manual override and a
\* readable image, the fabricated room is that rectangle, named GrossArea,
\* when no room or wall vertex exists; when raw pixel shapes exist the
\* union-bounding-box fallback is used instead.
C10_ManualRectWithoutShapes ==
    (pc = "done" /\ Measured = <<>> /\ ManualSupplied /\ Readable(preproc))
        => IF Box = NoBox
           THEN area_file.rooms = <<Room("GrossArea", ManualRect)>>
           ELSE /\ area_file.rooms[1].name = "GrossArea"
                /\ area_file.rooms[1].polygon_ft
                       \in {scale_poly(Box, ft_per_px), synthesize_small_box_ft}

C10_Witness ==
    /\ pc = "done"
    /\ manual_file = ManualObj(R(20), None)
    /\ Box = NoBox
    /\ area_file.rooms[1].polygon_ft = <<Pt(0, 0), Pt(20, 0), Pt(20, 10), Pt(0, 10)>>

\* no manual-scale values were supplied
NoManualValues == read_manual_scale_json(manual_file).isdict /\ KnownW = None /\ KnownH = None

ScaledBox == scale_poly(Box, ft_per_px)

\* C11 (as stated): with no surviving room, no manual values and a raw shape
\* vertex, the one fabricated room's polygon is the union bounding box of all
\* room and wall vertices times the resolved scale.
C11_ScaledBoundingBox ==
    (pc = "done" /\ Measured = <<>> /\ NoManualValues /\ Box # NoBox)
        => /\ Len(area_file.rooms) = 1
           /\ area_file.rooms[1].polygon_ft = ScaledBox

\* C11 (amended): with no surviving room and a raw shape vertex, the one
\* fabricated room's polygon is the scaled union bounding box when that box
\* encloses more than 0.01 square feet, and the fixed 10 x 10 box otherwise.
C11_ScaledBoxOrSmallBox ==
    (pc = "done" /\ Measured = <<>> /\ Box # NoBox)
        => /\ Len(area_file.rooms) = 1
           /\ area_file.rooms[1].polygon_ft =
                IF RGt(shoelace_area_and_perim(ScaledBox).area, MinArea)
                THEN ScaledBox ELSE synthesize_small_box_ft

C11_Witness ==
    /\ pc = "done"
    /\ rooms_px = <<Closet>> /\ walls_px # <<>>
    /\ Measured = <<>>
    /\ RGt(shoelace_area_and_perim(ScaledBox).area, MinArea)
    /\ area_file.rooms[1].polygon_ft = ScaledBox

\* C12: with no dimension tokens, no room or wall shapes and no readable
\* image, build_metrics ends normally and writes exactly one room,
\* SyntheticArea, the 10 x 10 box with area 100 and perimeter 40, under
\* scale_source 'default', whatever values a manual-scale record holds.
NothingToMeasure ==
    /\ dims = <<>> /\ rooms_px = <<>> /\ walls_px = <<>>
    /\ ~Readable(preproc)
    /\ read_manual_scale_json(manual_file).isdict

C12_SyntheticPlaceholder ==
    NothingToMeasure
        => /\ pc # "raised"
           /\ pc = "done"
                => /\ area_file.rooms =
                        <<[name |-> "SyntheticArea",
                           polygon_ft |-> <<Pt(0, 0), Pt(10, 0), Pt(10, 10), Pt(0, 10)>>,
                           area_ft2 |-> R(100), perimeter_ft |-> R(40)]>>
                   /\ area_file.scale_source = "default"
                   /\ area_file.scale_ft_per_px = Q(2, 100)

C12_Witness ==
    /\ pc = "done"
    /\ NothingToMeasure
    /\ manual_file = ManualObj(R(20), R(10))
    /\ preproc.path
    /\ area_file.rooms[1].name = "SyntheticArea"
    /\ area_file.scale_source = "default"

\* C13: a fabricated room is named SyntheticArea exactly when its polygon is
\* the fixed 10 x 10 placeholder and GrossArea exactly when its polygon is
\* derived from caller input; the placeholder is never named GrossArea.
C13_NameTellsOrigin ==
    (pc = "done" /\ Measured = <<>>)
        => \A i \in 1..Len(area_file.rooms) :
              /\ area_file.rooms[i].name \in {"GrossArea", "SyntheticArea"}
              /\ area_file.rooms[i].name = "SyntheticArea"
                    <=> area_file.rooms[i].polygon_ft = synthesize_small_box_ft

\* strictly increasing maps from the first n output shapes into m input shapes
Embeddings(n, m) ==
    {f \in [1..n -> 1..m] : \A i \in 1..n, j \in 1..n : i < j => f[i] < f[j]}

\* shape_ft is shape_px vertex by vertex, each coordinate times s
ScaledBy(shape_ft, shape_px, s) ==
    /\ Len(shape_ft) = Len(shape_px)
    /\ \A j \in 1..Len(shape_px) :
          shape_ft[j] = <<RMul(shape_px[j][1], s), RMul(shape_px[j][2], s)>>

MeasuredOut ==
    SelectSeq(area_file.rooms, LAMBDA r : r.name \notin {"GrossArea", "SyntheticArea"})

\* C14: every measured room and every wall written is its pixel shape, vertex
\* for vertex and in order, with x and y both multiplied by the one
\* scale_ft_per_px written in the same output.
C14_UniformScaling ==
    pc = "done"
        => /\ \E f \in Embeddings(Len(MeasuredOut), Len(rooms_px)) :
                \A k \in 1..Len(MeasuredOut) :
                    ScaledBy(MeasuredOut[k].polygon_ft, rooms_px[f[k]].poly_px,
                             area_file.scale_ft_per_px)
           /\ \E f \in Embeddings(Len(walls_file.walls), Len(walls_px)) :
                \A k \in 1..Len(walls_file.walls) :
                    ScaledBy(walls_file.walls[k].polyline_ft, walls_px[f[k]].poly_px,
                             area_file.scale_ft_per_px)

C14_Witness ==
    /\ pc = "done"
    /\ rooms_px = <<Rect, Closet>>
    /\ Len(MeasuredOut) = 1
    /\ Len(walls_file.walls) = 1
    /\ area_file.scale_ft_per_px = Q(1, 50)
    /\ MeasuredOut[1].polygon_ft[3] = Pt(8, 4)

Sum3(a, b, c) == RAdd(RAdd(a, b), c)

\* the sum of field over the shapes of a list of at most three
SumOf(shapes, Field(_)) ==
    Sum3(IF Len(shapes) >= 1 THEN Field(shapes[1]) ELSE R(0),
         IF Len(shapes) >= 2 THEN Field(shapes[2]) ELSE R(0),
         IF Len(shapes) >= 3 THEN Field(shapes[3]) ELSE R(0))

AreaOf(r) == r.area_ft2
PerimeterOf(r) == r.perimeter_ft
LengthOf(w) == w.length_ft

\* C15: in every output the totals are the sums of the rooms' area_ft2 and
\* perimeter_ft and of the walls' length_ft, and the one total wall length
\* appears in the area record, the walls record and the returned summary.
C15_TotalsAreSums ==
    pc = "done"
        => /\ Len(area_file.rooms) <= 3 /\ Len(walls_file.walls) <= 3
           /\ area_file.totals.total_area_ft2 = SumOf(area_file.rooms, AreaOf)
           /\ area_file.totals.total_perimeter_ft = SumOf(area_file.rooms, PerimeterOf)
           /\ area_file.totals.total_wall_length_ft = SumOf(walls_file.walls, LengthOf)
           /\ walls_file.total_wall_length_ft = area_file.totals.total_wall_length_ft
           /\ result.returned
           /\ result.totals = area_file.totals

C15_Witness ==
    /\ pc = "done"
    /\ Len(area_file.rooms) = 2
    /\ Len(walls_file.walls) = 1
    /\ RPos(walls_file.total_wall_length_ft)
    /\ area_file.totals.total_area_ft2
          = RAdd(area_file.rooms[1].area_ft2, area_file.rooms[2].area_ft2)
    /\ result.totals.total_wall_length_ft = walls_file.walls[1].length_ft

\* C16: whatever the manual-scale file holds (nothing, unparsable text, a
\* value that is not an object, values that are not numbers) and whether or
\* not the image can be read, build_metrics never raises: it runs to the end
\* and writes both records.
C16_NeverRaises ==
    /\ pc # "raised"
    /\ pc = "done" => area_file.exists /\ walls_file.exists

\* ========================================================================
\* Properties of the Dimension Parser
\* ========================================================================
NumberOf(digits) == FloatOf(digits, 1, Len(digits) + 1)

FloatVal(x) == [kind |-> "float", a |-> x, b |-> None]

Marked(parts, marks) == {<<p, m>> : p \in parts \ {<<>>}, m \in marks \ {<<>>}}

\* C17: a line <ft>'-<in>" (feet mark, hyphen, inches, inch mark) is parsed by
\* parse_dimension and by _to_feet to ft + in/12, and a line <ft>' to ft.
C17_FeetAndInches ==
    qpc = "done" =>
        /\ \A f \in Marked(FtParts, FtMarkGlyphs), i \in Marked(InParts, InMarkGlyphs) :
              raw = f[1] \o f[2] \o <<"-">> \o i[1] \o i[2] =>
                  /\ val = FloatVal(RAdd(NumberOf(f[1]), RDiv(NumberOf(i[1]), R(12))))
                  /\ feet_val = RAdd(NumberOf(f[1]), RDiv(NumberOf(i[1]), R(12)))
        /\ \A f \in Marked(FtParts, FtMarkGlyphs) :
              raw = f[1] \o f[2] =>
                  val = FloatVal(NumberOf(f[1])) /\ feet_val = NumberOf(f[1])

\* C18: a line of inches alone with an inch mark, straight or curly, is
\* parsed to in/12 feet, not to None.
C18_InchesAlone ==
    qpc = "done" =>
        \A i \in Marked(InParts, InMarkGlyphs) :
            raw = i[1] \o i[2] =>
                /\ val = FloatVal(RDiv(NumberOf(i[1]), R(12)))
                /\ feet_val = RDiv(NumberOf(i[1]), R(12))

NearBorder(p) ==
    \/ RLe(p[1], R(margin)) \/ RLe(R(img.w - margin), p[1])
    \/ RLe(p[2], R(margin)) \/ RLe(R(img.h - margin), p[2])

Records == exterior \o interior

\* C20: a line is classified exterior exactly when one of its endpoints has
\* x <= margin, x >= w - margin, y <= margin or y >= h - margin; every line
\* the loop has passed is recorded with class "exterior" in the exterior list
\* when this holds and with class "interior" in the interior list otherwise.
C20_ExteriorIffNearBorder ==
    /\ \A k \in 1..Len(exterior) : exterior[k].class = "exterior"
    /\ \A k \in 1..Len(interior) : interior[k].class = "interior"
    /\ \A k \in 1..Len(Records) :
          Records[k].class = "exterior" <=>
              NearBorder(Records[k].p1) \/ NearBorder(Records[k].p2)
    /\ wpc \in {"loop", "written"} =>
          \A i \in 1..done : \E k \in 1..Len(Records) :
              /\ Records[k].index = i - 1
              /\ Records[k].p1 = lines[i].p1 /\ Records[k].p2 = lines[i].p2

C20_Witness ==
    /\ wpc = "written"
    /\ margin = 30
    /\ lines = <<SegList[4], SegList[3]>>
    /\ Len(interior) = 1 /\ interior[1].index = 0
    /\ Len(exterior) = 1 /\ exterior[1].p1 = Pt(30, 40)

\* the records of either list that carry the index of line i
CopiesOf(i) == {k \in 1..Len(Records) : Records[k].index = i - 1}

\* C21: the aggregator partitions the lines: every line the loop has passed
\* appears in exactly one of the two lists, exterior and interior counts add
\* up to the total count, and the accumulated exterior and interior lengths
\* add up to the accumulated length of all lines.
C21_Partition ==
    /\ wpc \in {"loop", "written"} =>
          /\ \A i \in 1..done :
                /\ Cardinality(CopiesOf(i)) = 1
                /\ \A k \in CopiesOf(i) :
                      Records[k].p1 = lines[i].p1 /\ Records[k].p2 = lines[i].p2
          /\ Len(Records) = done
          /\ RAdd(total_ext_real, total_int_real) = total_len_real
          /\ total_len_real =
                RSum([i \in 1..done |->
                         RMul(line_length_px(lines[i].p1, lines[i].p2), per_pixel)])
    /\ wpc = "written" =>
          /\ out.counts.exterior + out.counts.interior = out.counts.total
          /\ out.counts.total = Len(lines)

C21_Witness ==
    /\ wpc = "written"
    /\ margin = 30
    /\ per_pixel = Q(1, 2)
    /\ lines = <<SegList[1], SegList[2]>>
    /\ out.counts = [total |-> 2, exterior |-> 1, interior |-> 1]
    /\ out.totals.sum_exterior = R(50) /\ out.totals.sum_interior = R(10)
    /\ out.totals.sum_all = R(60)

C23_AbortsOnlyWithoutOcr ==
    /\ ~ocr_exists =>
          /\ pc \in {"main", "aborted"}
          /\ area_file = NoAreaFile /\ walls_file = NoWallsFile
    /\ pc \in {"aborted", "raised"} => ~ocr_exists

\* ========================================================================
\* Properties of /estimate
\* ========================================================================
\* C24: a request whose status.json is written has in runs/<run_id>/metrics a
\* metrics_area.json with at least one room and a metrics_walls.json; when
\* preprocess, OCR or geometry failed these are the 10 x 10 SyntheticArea
\* placeholder with totals 100 / 40 / 0, and ocr_geometry_used is false.
C24_MetricsAlwaysStored ==
    \A r \in Reqs :
        status[r].written =>
            /\ epc[r] = "done"
            /\ run_area[r].exists /\ Len(run_area[r].rooms) >= 1
            /\ run_walls[r].exists
            /\ ~ocr_ok[r] =>
                  /\ run_area[r].rooms =
                        <<[name |-> "SyntheticArea", polygon_ft |-> synthesize_small_box_ft,
                           area_ft2 |-> R(100), perimeter_ft |-> R(40)]>>
                  /\ run_area[r].totals =
                        [total_area_ft2 |-> R(100), total_perimeter_ft |-> R(40),
                         total_wall_length_ft |-> R(0)]
                  /\ run_walls[r].walls = <<>>
                  /\ status[r].totals = run_area[r].totals
                  /\ ~status[r].ocr_geometry_used

C24_Witness ==
    /\ status[1].written /\ ~ocr_ok[1] /\ ~plan[1].ok
    /\ run_area[1].rooms[1].name = "SyntheticArea"
    /\ status[2].written /\ ocr_ok[2] /\ plan[2].ok
    /\ status[2].ocr_geometry_used
    /\ run_area[2].rooms[1].name = "GrossArea"

\* ========================================================================
\* Properties of the manual and later tiers
\* ========================================================================
Vertices == AllPoints(walls_px) \o AllPoints(rooms_px)
Xs == Tup([i \in 1..Len(Vertices) |-> Vertices[i][1]])
Ys == Tup([i \in 1..Len(Vertices) |-> Vertices[i][2]])

\* the pixel extent of the manual tier; None: there is none
SpanW ==
    IF Vertices # <<>> THEN RSub(MaxR(Xs), MinR(Xs))
    ELSE IF Readable(preproc) THEN R(preproc.w) ELSE None
SpanH ==
    IF Vertices # <<>> THEN RSub(MaxR(Ys), MinR(Ys))
    ELSE IF Readable(preproc) THEN R(preproc.h) ELSE None

\* C25: the manual tier measures the union bounding box of all room and wall
\* vertices when there is any vertex and the image only when there is none;
\* it divides the known width by the pixel width when the width is supplied
\* and the pixel width is positive, otherwise the known height by the pixel
\* height; with a bounding box of zero extent on the supplied axis the tier
\* does not apply, whatever the image.
C25_ManualExtent ==
    WellFormedManual /\ pc \notin {"ocr", "manual", "raised"} =>
        IF KnownW # None /\ SpanW # None /\ RPos(SpanW)
        THEN manual_used /\ ft_per_px = RDiv(KnownW, SpanW)
        ELSE IF KnownH # None /\ SpanH # None /\ RPos(SpanH)
        THEN manual_used /\ ft_per_px = RDiv(KnownH, SpanH)
        ELSE ~manual_used

C25_Witness ==
    /\ pc = "done"
    /\ rooms_px = <<>> /\ Len(walls_px) = 1 /\ Len(walls_px[1].poly_px) = 2
    /\ SpanW = R(0)
    /\ KnownW = R(20) /\ KnownH = None
    /\ Readable(preproc)
    /\ ~manual_used

\* C26: the door-width heuristic (median of 2.6667 / pixel distance over the
\* tokens naming the door width whose endpoints are more than 3 px apart)
\* sets the scale only when neither the OCR tier nor the manual tier did, and
\* the default 0.02 tagged 'default' only when all three found nothing; a
\* scale found by an earlier tier is never replaced by either.
C26_LaterTiersOnlyFill ==
    pc \notin {"ocr", "manual", "heuristic", "default", "raised"} =>
        IF manual_used THEN scale_source = "manual" /\ tier = "manual"
        ELSE IF estimate_scale_from_dims(dims) # None
        THEN /\ ft_per_px = estimate_scale_from_dims(dims)
             /\ scale_source = "ocr" /\ tier = "ocr"
        ELSE IF \E i \in 1..Len(dims) : IsGuess(dims[i])
        THEN /\ ft_per_px = Median(Guesses(dims))
             /\ scale_source = "ocr"
             /\ tier = "heuristic"
        ELSE ft_per_px = Q(2, 100) /\ scale_source = "default" /\ tier = "default"

C26_Witness ==
    /\ pc = "done"
    /\ dims = <<TokenList[4], TokenList[7]>>
    /\ manual_file.kind = "missing"
    /\ estimate_scale_from_dims(dims) = None
    /\ tier = "heuristic"
    /\ ft_per_px = Q(1, 10000)

\* ========================================================================
\* Properties of the normalization of rooms and walls
\* ========================================================================
\* the pixel rooms and walls the claim says are kept, in input order
KeptRooms ==
    SelectSeq(rooms_px,
              LAMBDA r : /\ Len(r.poly_px) >= 3
                         /\ RGt(RMul(shoelace_area_and_perim(r.poly_px).area,
                                     RMul(ft_per_px, ft_per_px)), Q(1, 100)))
KeptWalls == SelectSeq(walls_px, LAMBDA w : Len(w.poly_px) >= 2)

\* C27: a pixel room is among the measured rooms exactly when it has at least
\* 3 vertices and its scaled area exceeds 0.01 ft2; the rooms kept stay in
\* input order under their name, or 'Room' when unnamed; a wall is written
\* exactly when it has at least 2 vertices.
C27_ShapesKept ==
    /\ pc \in {"guarantee", "done"} =>
          LET got == IF pc = "done" THEN MeasuredOut ELSE rooms_ft
          IN  /\ Len(got) = Len(KeptRooms)
              /\ \A i \in 1..Len(got) :
                    /\ got[i].name =
                          (IF KeptRooms[i].name = "" THEN "Room" ELSE KeptRooms[i].name)
                    /\ got[i].polygon_ft = scale_poly(KeptRooms[i].poly_px, ft_per_px)
    /\ pc = "done" =>
          /\ Len(walls_file.walls) = Len(KeptWalls)
          /\ \A i \in 1..Len(KeptWalls) :
                walls_file.walls[i].polyline_ft = scale_poly(KeptWalls[i].poly_px, ft_per_px)

C27_Witness ==
    /\ pc = "done"
    /\ rooms_px = <<Line, Den, Rect>>
    /\ Len(walls_px) = 2 /\ walls_px[1] = Dot
    /\ Len(area_file.rooms) = 2
    /\ area_file.rooms[1].name = "Den" /\ area_file.rooms[2].name = "Room"
    /\ Len(walls_file.walls) = 1
    /\ Len(walls_file.walls[1].polyline_ft) = 3

Reverse(poly) == Tup([i \in 1..Len(poly) |-> poly[Len(poly) + 1 - i]])

AreaFt(poly_px) == shoelace_area_and_perim(scale_poly(poly_px, ft_per_px)).area

\* C28: for a polygon of at least 3 vertices and a scale s > 0, the shoelace
\* area of the scaled polygon is s * s times the area of the pixel polygon,
\* is not negative, and is the same for the vertices in reverse order.
C28_AreaScalingLaw ==
    pc = "guarantee" /\ RPos(ft_per_px) =>
        /\ \A i \in 1..Len(rooms_px) :
              Len(rooms_px[i].poly_px) >= 3 =>
                  /\ AreaFt(rooms_px[i].poly_px) =
                        RMul(RMul(ft_per_px, ft_per_px),
                             shoelace_area_and_perim(rooms_px[i].poly_px).area)
                  /\ RLe(R(0), AreaFt(rooms_px[i].poly_px))
                  /\ AreaFt(Reverse(rooms_px[i].poly_px)) = AreaFt(rooms_px[i].poly_px)
        /\ \A k \in 1..Len(rooms_ft) :
              /\ rooms_ft[k].area_ft2 = Round3(AreaFt(KeptRooms[k].poly_px))
              /\ RPos(rooms_ft[k].area_ft2)

C28_Witness ==
    /\ pc = "guarantee"
    /\ rooms_px = <<Rect, RectBack>>
    /\ ft_per_px = Q(1, 20)
    /\ Len(rooms_ft) = 2
    /\ rooms_ft[1].area_ft2 = R(200) /\ rooms_ft[2].area_ft2 = R(200)

\* the x and the y of the endpoints of all lines
EndXs == UNION {{lines[k].p1[1], lines[k].p2[1]} : k \in 1..Len(lines)}
EndYs == UNION {{lines[k].p1[2], lines[k].p2[2]} : k \in 1..Len(lines)}
Greatest(S) == CHOOSE x \in S : \A y \in S : RLe(y, x)
Least(S) == CHOOSE x \in S : \A y \in S : RLe(x, y)

\* C29: the bounding-box perimeter written by the aggregator is
\* 2 * ((max x - min x) + (max y - min y)) * per_pixel over the endpoints of
\* all lines of both classes: a function of the endpoints and the scale alone,
\* whatever the image size, the margin and the classes.
C29_BboxPerimeter ==
    wpc = "written" =>
        /\ out.totals.bbox_perimeter =
              Round3(RMul(RMul(R(2), RAdd(RSub(Greatest(EndXs), Least(EndXs)),
                                          RSub(Greatest(EndYs), Least(EndYs)))),
                          per_pixel))
        /\ out.bbox_px = [minx |-> Least(EndXs), maxx |-> Greatest(EndXs),
                          miny |-> Least(EndYs), maxy |-> Greatest(EndYs)]

C29_Witness ==
    /\ wpc = "written"
    /\ img = Image(200, 160) /\ margin = 30 /\ per_pixel = Q(1, 2)
    /\ lines = <<SegList[1], SegList[10]>>
    /\ Len(exterior) = 1 /\ Len(interior) = 1
    /\ out.totals.bbox_perimeter = R(107)

\* what C30 says of a metrics_area.json that build_metrics wrote
FabricatedOnly(a) ==
    /\ Len(a.rooms) = 1
    /\ a.rooms[1].name \in {"GrossArea", "SyntheticArea"}
    /\ a.totals.total_wall_length_ft = R(0)
    /\ a.scale_source \in {"manual", "default"}

\* C30: in /estimate the OCR JSON given to build_metrics is the one
\* ocr_dims.process wrote, whose entries have a text and feet but no endpoints,
\* and no rooms or walls; so every metrics file build_metrics writes there has
\* exactly one fabricated room (GrossArea or SyntheticArea), no walls, a total
\* wall length of 0 and a scale source of manual or default.
C30_FabricatedRoomOnly ==
    /\ data_ocr.exists =>
          /\ \E r \in Reqs : data_ocr.dims = plan[r].dims
          /\ \A k \in 1..Len(data_ocr.dims) : ~HasEnds(data_ocr.dims[k])
    /\ data_area.exists => FabricatedOnly(data_area)
    /\ data_walls.exists =>
          data_walls.walls = <<>> /\ data_walls.total_wall_length_ft = R(0)
    /\ \A r \in Reqs :
          /\ run_area[r].exists /\ run_area[r] # Placeholder => FabricatedOnly(run_area[r])
          /\ run_walls[r].exists =>
                run_walls[r].walls = <<>> /\ run_walls[r].total_wall_length_ft = R(0)

C30_Witness ==
    \E r \in Reqs :
        /\ epc[r] = "done"
        /\ plan[r].dims = ProcessDims(SizeLines) /\ Len(plan[r].dims) = 2
        /\ plan[r].dims[1].feet = StrV /\ plan[r].dims[2].feet = Q(25, 2)
        /\ run_area[r].scale_source = "manual"
        /\ run_area[r].scale_ft_per_px = Q(1, 30)
        /\ run_area[r].rooms[1].name = "GrossArea"
        /\ run_area[r].rooms[1].area_ft2 = R(200)
        /\ run_walls[r].walls = <<>>

====
